---------------------------- MODULE Spec2Model ----------------------------
(***************************************************************************)
(* Runtime input processor (zmk-module-runtime-input-processor).           *)
(*                                                                         *)
(* One runtime channel (struct runtime_processor_data / _config), the      *)
(* keymap layer state it drives, the settings record it saves, and the     *)
(* operations of src/src/pointing/input_processor_runtime.c.               *)
(*                                                                         *)
(* Spec     the temp-layer state machine: motion samples, key events, the  *)
(*          activation and deactivation work, keep_active, layer switches  *)
(*          and the temporary override of the temp-layer id                *)
(* SpecCfg  the configuration store: every setter, restore_persistent and  *)
(*          reset under a budget of MaxCalls calls, with motion samples    *)
(***************************************************************************)
EXTENDS Integers, Sequences, FiniteSets, TLC

VARIABLES
    cfg,                 \* struct runtime_processor_config (compiled-in)
    data,                \* struct runtime_processor_data
    remainder,           \* zmk_input_processor_state.remainder, per axis
    keymap_layer_state,  \* the keymap's set of active layer ids
    settings,            \* the record stored under "input_proc/<name>"
    now,                 \* k_uptime_get(), in ms
    op,                  \* the operation performed last, with its calls
    activated_layer,     \* layer id of the last successful activation
    fault,               \* the CPU has trapped (integer division by zero)
    calls,               \* configuration-store calls made so far
    emitted,             \* samples of a constant-input run and their output sum
    burst,               \* persistent store calls not yet saved, the time of the
                         \* last, and the configuration last saved
    inflight,            \* handlers that have read temp_layer_layer_active and
                         \* not yet acted on it
    axis_snap_behavior,  \* behavior_input_processor_axis_snap_data, and the
                         \* active configuration at the last successful press
    aml,                 \* the auto-mouse-layer processor: its config and data
    last_motion          \* when the last sample was processed that found the
                         \* temp layer active and not held, -1 if none was

vars == <<cfg, data, remainder, keymap_layer_state, settings, now, op,
          activated_layer, fault, calls, emitted, burst, inflight,
          axis_snap_behavior, aml, last_motion>>

----------------------------------------------------------------------------
(* Bounds of the model *)

MaxTime == 2
MaxCalls == 2

(* Devicetree defaults of the modelled channel, in model milliseconds *)
InitActivationDelay == 1
InitDeactivationDelay == 1
SaveDebounce == 2

(* Program constants *)
ZMK_INPUT_PROCESSOR_AXIS_SNAP_MODE_NONE == 0
ZMK_INPUT_PROCESSOR_AXIS_SNAP_MODE_X == 1
ZMK_INPUT_PROCESSOR_AXIS_SNAP_MODE_Y == 2
INPUT_REL_X == 0
INPUT_REL_Y == 1
INPUT_REL_HWHEEL == 6
INPUT_REL_WHEEL == 8
INPUT_EV_REL == 2
INPUT_EV_KEY == 1
EINVAL == 22
DecayPeriodMs == 50
FixedPointScale == 1000

(* The keymap of the modelled keyboard *)
ZMK_KEYMAP_LAYERS_LEN == 3
NumPositions == 6

----------------------------------------------------------------------------
(* C integer arithmetic *)

Abs(v) == IF v < 0 THEN -v ELSE v

\* narrowing conversion to int16_t
I16(v) ==
    LET m == v % 65536 IN IF m >= 32768 THEN m - 65536 ELSE m

\* narrowing conversion to uint16_t / uint8_t
U16(v) == v % 65536
U8(v) == v % 256

\* C's truncating division
CDiv(a, b) ==
    IF (a >= 0) = (b > 0) THEN Abs(a) \div Abs(b) ELSE -(Abs(a) \div Abs(b))

----------------------------------------------------------------------------
(* Deferred work items (struct k_work_delayable): idle, queued for the     *)
(* work queue, or delayed until a deadline.                                *)

Idle == -1
Queued == 0

\* k_work_reschedule(work, K_MSEC(delay)): replaces the pending instance
k_work_reschedule(delay) == IF delay = 0 THEN Queued ELSE now + delay

\* a delayed work whose deadline has been reached is handed to the queue
Expire(w, t) == IF w > 0 /\ w <= t THEN Queued ELSE w

\* a call made to a collaborator: the work item or "", the delay or layer
Call(fn, work, n, ret) == [fn |-> fn, work |-> work, n |-> n, ret |-> ret]

NoOut == [code |-> -1, value |-> 0]

Op(name, args, ret, cs, raised, out) ==
    [name |-> name, args |-> args, ret |-> ret, calls |-> cs,
     raised |-> raised, out |-> out]


----------------------------------------------------------------------------
(* HID usages (zmk/hid.h, zmk/keys.h) as the listener decodes them *)

HID_USAGE_KEY == 7
HID_USAGE_CONSUMER == 12
HID_USAGE_KEY_KEYBOARD_LEFTCONTROL == 224
HID_USAGE_KEY_KEYBOARD_RIGHT_GUI == 231

ZMK_HID_USAGE(page, id) == page * 65536 + id
ZMK_HID_USAGE_ID(usage) == usage % 65536
ZMK_HID_USAGE_PAGE(usage) == (usage \div 65536) % 256

is_mod(usage_page, usage_id) ==
    /\ usage_page = HID_USAGE_KEY
    /\ usage_id >= HID_USAGE_KEY_KEYBOARD_LEFTCONTROL
    /\ usage_id <= HID_USAGE_KEY_KEYBOARD_RIGHT_GUI

KeyA == ZMK_HID_USAGE(HID_USAGE_KEY, 4)
KeyB == ZMK_HID_USAGE(HID_USAGE_KEY, 5)
KeyLShift == ZMK_HID_USAGE(HID_USAGE_KEY, 225)
KeyLShiftNoPage == ZMK_HID_USAGE(0, 225)
KeyConsumerMute == ZMK_HID_USAGE(HID_USAGE_CONSUMER, 226)

----------------------------------------------------------------------------
(* The keymap collaborator: bindings per layer and position *)

Binding(dev, p1) == [behavior_dev |-> dev, param1 |-> p1]
Trans == Binding("trans", 0)
Kp(k) == Binding("kp", k)
NoBinding == Binding("NULL", 0)

Keymap ==
    <<  \* layer 0
        << Kp(KeyA), Kp(KeyLShift), Kp(KeyA), Kp(KeyB), Binding("mo", 2),
           Kp(KeyLShiftNoPage) >>,
        \* layer 1
        << Binding("mkp", 1), Trans, Trans, Trans, Trans, Trans >>,
        \* layer 2
        << Trans, Kp(KeyA), Trans, Trans, Kp(KeyConsumerMute), Trans >> >>

Layers == 0 .. (ZMK_KEYMAP_LAYERS_LEN - 1)
Positions == 0 .. (NumPositions - 1)

\* zmk_keymap_get_layer_binding_at_idx: NULL outside the keymap
zmk_keymap_get_layer_binding_at_idx(layer_id, position) ==
    IF layer_id \in Layers /\ position \in Positions
    THEN Keymap[layer_id + 1][position + 1]
    ELSE NoBinding

\* zmk_keymap_layer_index_to_id: layers are not reordered
zmk_keymap_layer_index_to_id(layer_idx) == layer_idx

zmk_keymap_layer_active(layer_id) == layer_id \in keymap_layer_state

\* zmk_keymap_layer_activate / _deactivate: <<result, new layer state>>
zmk_keymap_layer_activate(layer) ==
    IF layer >= ZMK_KEYMAP_LAYERS_LEN
    THEN <<-EINVAL, keymap_layer_state>>
    ELSE <<0, keymap_layer_state \cup {layer}>>

zmk_keymap_layer_deactivate(layer) ==
    IF layer >= ZMK_KEYMAP_LAYERS_LEN
    THEN <<-EINVAL, keymap_layer_state>>
    ELSE IF layer = 0
    THEN <<0, keymap_layer_state>>
    ELSE <<0, keymap_layer_state \ {layer}>>

\* zmk_behavior_get_binding: the behavior device of a name
zmk_behavior_get_binding(behavior_dev) == behavior_dev

----------------------------------------------------------------------------
(* Compiled-in configuration of the channel (RUNTIME_PROCESSOR_INST) *)

NoBehavior == ""

Config(keep, transparent, kp) ==
    [ name |-> "trackball",
      type |-> INPUT_EV_REL,
      x_codes |-> << INPUT_REL_X >>,
      y_codes |-> << INPUT_REL_Y >>,
      initial_scale_multiplier |-> 1,
      initial_scale_divisor |-> 1,
      initial_rotation_degrees |-> 0,
      temp_layer_transparent_behavior |-> transparent,
      temp_layer_kp_behavior |-> kp,
      temp_layer_keep_keycodes |-> keep,
      initial_temp_layer_enabled |-> TRUE,
      initial_temp_layer_layer |-> 1,
      initial_temp_layer_activation_delay_ms |-> InitActivationDelay,
      initial_temp_layer_deactivation_delay_ms |-> InitDeactivationDelay,
      initial_active_layers |-> 0,
      initial_axis_snap_mode |-> ZMK_INPUT_PROCESSOR_AXIS_SNAP_MODE_NONE,
      initial_axis_snap_threshold |-> 100,
      initial_axis_snap_timeout_ms |-> 1000,
      initial_xy_to_scroll_enabled |-> FALSE,
      initial_xy_swap_enabled |-> FALSE,
      initial_x_invert |-> FALSE,
      initial_y_invert |-> FALSE ]

\* one channel without the optional properties, one with all of them
Configs ==
    { Config(<< >>, NoBehavior, NoBehavior), Config(<< KeyB >>, "trans", "kp") }

----------------------------------------------------------------------------
(* update_rotation_values: cos and sin of the angle, times 1000, truncated *)

RotationValues(degrees) ==
    CASE degrees = 0 -> <<1000, 0>>
      [] degrees = 45 -> <<707, 707>>
      [] degrees = 90 -> <<0, 1000>>
      [] degrees = 180 -> <<-1000, 0>>
      [] degrees = 270 -> <<0, -1000>>
      [] degrees = -90 -> <<0, -1000>>
      [] degrees = 360 -> <<1000, 0>>

update_rotation_values(d) ==
    [d EXCEPT !.cos_val = RotationValues(d.rotation_degrees)[1],
              !.sin_val = RotationValues(d.rotation_degrees)[2]]

----------------------------------------------------------------------------
(* runtime_processor_init *)

runtime_processor_init(c) ==
    update_rotation_values(
    [ scale_multiplier |-> c.initial_scale_multiplier,
      scale_divisor |-> c.initial_scale_divisor,
      rotation_degrees |-> c.initial_rotation_degrees,
      persistent_scale_multiplier |-> c.initial_scale_multiplier,
      persistent_scale_divisor |-> c.initial_scale_divisor,
      persistent_rotation_degrees |-> c.initial_rotation_degrees,
      cos_val |-> 0,
      sin_val |-> 0,
      has_x |-> FALSE,
      has_y |-> FALSE,
      last_x |-> 0,
      last_y |-> 0,
      temp_layer_enabled |-> c.initial_temp_layer_enabled,
      temp_layer_layer |-> c.initial_temp_layer_layer,
      temp_layer_activation_delay_ms |-> c.initial_temp_layer_activation_delay_ms,
      temp_layer_deactivation_delay_ms |-> c.initial_temp_layer_deactivation_delay_ms,
      persistent_temp_layer_enabled |-> c.initial_temp_layer_enabled,
      persistent_temp_layer_layer |-> c.initial_temp_layer_layer,
      persistent_temp_layer_activation_delay_ms |->
          c.initial_temp_layer_activation_delay_ms,
      persistent_temp_layer_deactivation_delay_ms |->
          c.initial_temp_layer_deactivation_delay_ms,
      temp_layer_layer_active |-> FALSE,
      temp_layer_keep_active |-> FALSE,
      last_input_timestamp |-> 0,
      last_keypress_timestamp |-> 0,
      active_layers |-> c.initial_active_layers,
      persistent_active_layers |-> c.initial_active_layers,
      axis_snap_mode |-> c.initial_axis_snap_mode,
      axis_snap_threshold |-> c.initial_axis_snap_threshold,
      axis_snap_timeout_ms |-> c.initial_axis_snap_timeout_ms,
      persistent_axis_snap_mode |-> c.initial_axis_snap_mode,
      persistent_axis_snap_threshold |-> c.initial_axis_snap_threshold,
      persistent_axis_snap_timeout_ms |-> c.initial_axis_snap_timeout_ms,
      axis_snap_cross_axis_accum |-> 0,
      axis_snap_last_decay_timestamp |-> 0,
      xy_to_scroll_enabled |-> c.initial_xy_to_scroll_enabled,
      xy_swap_enabled |-> c.initial_xy_swap_enabled,
      persistent_xy_to_scroll_enabled |-> c.initial_xy_to_scroll_enabled,
      persistent_xy_swap_enabled |-> c.initial_xy_swap_enabled,
      x_invert |-> c.initial_x_invert,
      y_invert |-> c.initial_y_invert,
      persistent_x_invert |-> c.initial_x_invert,
      persistent_y_invert |-> c.initial_y_invert,
      save_work |-> Idle,
      temp_layer_activation_work |-> Idle,
      temp_layer_deactivation_work |-> Idle ])

NoSettings == [len |-> 0]

NoEmitted == [n |-> 0, sum |-> 0, v |-> 0]
NoBurst == [writes |-> 0, last |-> 0, saved |-> << >>]

\* the state after the device of channel c has been initialised
\* no handler is between its test of temp_layer_layer_active and its action
NoInflight == [reset |-> "idle", press |-> -1]

\* behavior_input_processor_axis_snap_init
behavior_input_processor_axis_snap_init ==
    [is_active |-> FALSE, before |-> << >>]

\* the auto-mouse-layer processor is not part of the build
NoAml == [present |-> FALSE]

ConstructedWith(c, a) ==
    /\ cfg = c
    /\ data = runtime_processor_init(c)
    /\ remainder = [x |-> 0, y |-> 0]
    /\ keymap_layer_state = {0}
    /\ settings = NoSettings
    /\ now = 1
    /\ op = Op("init", << >>, 0, << >>, << >>, NoOut)
    /\ activated_layer = -1
    /\ fault = FALSE
    /\ calls = 0
    /\ emitted = NoEmitted
    /\ burst = NoBurst
    /\ inflight = NoInflight
    /\ axis_snap_behavior = behavior_input_processor_axis_snap_init
    /\ aml = a
    /\ last_motion = -1

Constructed(c) == ConstructedWith(c, NoAml)

Init == \E c \in Configs : Constructed(c)

----------------------------------------------------------------------------
(* Helpers of the event handler *)

ENODEV == 19

code_idx(code, list) ==
    IF \E i \in 1 .. Len(list) : list[i] = code
    THEN (CHOOSE i \in 1 .. Len(list) :
              list[i] = code /\ \A j \in 1 .. (i - 1) : list[j] # code) - 1
    ELSE -ENODEV

RECURSIVE LayerMaskLoop(_, _)
LayerMaskLoop(remaining_mask, layer_idx) ==
    IF remaining_mask = 0 \/ layer_idx >= ZMK_KEYMAP_LAYERS_LEN
    THEN FALSE
    ELSE IF remaining_mask % 2 = 1
            /\ zmk_keymap_layer_active(zmk_keymap_layer_index_to_id(layer_idx))
    THEN TRUE
    ELSE LayerMaskLoop(remaining_mask \div 2, layer_idx + 1)

\* variant of the gate without the special case of an empty mask
layer_mask_without_zero_case(active_layers_mask) ==
    LayerMaskLoop(active_layers_mask, 0)

is_processor_active_for_current_layers(active_layers_mask) ==
    IF active_layers_mask = 0 THEN TRUE
    ELSE LayerMaskLoop(active_layers_mask, 0)

\* an integer division: its quotient, and whether the divisor was zero
Quot(a, b) == IF b = 0 THEN 0 ELSE CDiv(a, b)

\* scale_val: <<scaled value, new remainder, division by zero>>
scale_val(value, mul, div, rem) ==
    LET value_mul0 == I16(value * I16(mul))
        value_mul == I16(value_mul0 + rem)
        scaled == I16(Quot(value_mul, I16(div)))
    IN  <<scaled, I16(value_mul - scaled * I16(div)), I16(div) = 0>>

----------------------------------------------------------------------------
(* runtime_processor_handle_event, stage by stage.  Each stage maps the    *)
(* record [d, value, code, rem, calls, divzero] to the next one.           *)

\* code mapping (XY swap and XY-to-scroll), lines 287-309
CodeMappingStage(s, is_x) ==
    IF s.d.xy_to_scroll_enabled
    THEN [s EXCEPT !.code = IF is_x THEN INPUT_REL_HWHEEL ELSE INPUT_REL_WHEEL]
    ELSE IF s.d.xy_swap_enabled
    THEN [s EXCEPT !.code = IF is_x THEN INPUT_REL_Y ELSE INPUT_REL_X]
    ELSE s

\* variant of the idle gate that needs more than the delay to have passed
ActivationGateStrict(d) ==
    \/ d.last_keypress_timestamp = 0
    \/ (now - d.last_keypress_timestamp) > d.temp_layer_activation_delay_ms

\* the idle gate of the activation trigger, lines 319-320
ActivationGate(d) ==
    \/ d.last_keypress_timestamp = 0
    \/ (now - d.last_keypress_timestamp) >= d.temp_layer_activation_delay_ms

\* temp-layer activation trigger, lines 311-325
ActivationStage(s) ==
    IF s.d.temp_layer_enabled /\ s.value # 0
    THEN LET d1 == [s.d EXCEPT !.last_input_timestamp = now]
         IN  IF ~d1.temp_layer_layer_active /\ ActivationGate(d1)
             THEN [s EXCEPT
                     !.d = [d1 EXCEPT !.temp_layer_activation_work =
                                          k_work_reschedule(0)],
                     !.calls = Append(@, Call("k_work_reschedule",
                                        "temp_layer_activation_work", 0, 1))]
             ELSE [s EXCEPT !.d = d1]
    ELSE s

\* variant of the rotation that pairs the samples of an unrotated channel too
rotation_stage_pairing_always(s, is_x, value) ==
    IF is_x
    THEN LET d1 == [s.d EXCEPT !.last_x = value, !.has_x = TRUE]
         IN  IF d1.has_y
             THEN [s EXCEPT
                     !.value = I16(CDiv(d1.last_x * d1.cos_val
                                        - d1.last_y * d1.sin_val,
                                        FixedPointScale)),
                     !.d = [d1 EXCEPT !.has_y = FALSE]]
             ELSE [s EXCEPT !.value = 0, !.d = d1]
    ELSE LET d1 == [s.d EXCEPT !.last_y = value, !.has_y = TRUE]
         IN  IF d1.has_x
             THEN [s EXCEPT
                     !.value = I16(CDiv(d1.last_x * d1.sin_val
                                        + d1.last_y * d1.cos_val,
                                        FixedPointScale)),
                     !.d = [d1 EXCEPT !.has_x = FALSE]]
             ELSE [s EXCEPT !.value = 0, !.d = d1]

\* rotation with X/Y pairing, lines 327-360
RotationStage(s, is_x, value) ==
    IF s.d.rotation_degrees # 0
    THEN IF is_x
         THEN LET d1 == [s.d EXCEPT !.last_x = value, !.has_x = TRUE]
              IN  IF d1.has_y
                  THEN [s EXCEPT
                          !.value = I16(CDiv(d1.last_x * d1.cos_val
                                             - d1.last_y * d1.sin_val,
                                             FixedPointScale)),
                          !.d = [d1 EXCEPT !.has_y = FALSE]]
                  ELSE [s EXCEPT !.value = 0, !.d = d1]
         ELSE LET d1 == [s.d EXCEPT !.last_y = value, !.has_y = TRUE]
              IN  IF d1.has_x
                  THEN [s EXCEPT
                          !.value = I16(CDiv(d1.last_x * d1.sin_val
                                             + d1.last_y * d1.cos_val,
                                             FixedPointScale)),
                          !.d = [d1 EXCEPT !.has_x = FALSE]]
                  ELSE [s EXCEPT !.value = 0, !.d = d1]
    ELSE s

\* axis inversion, lines 362-366
InversionStage(s, is_x) ==
    IF (is_x /\ s.d.x_invert) \/ (~is_x /\ s.d.y_invert)
    THEN [s EXCEPT !.value = -s.value]
    ELSE s

\* decay of the cross-axis accumulator, lines 376-410
DecayStage(s) ==
    LET d == s.d
        elapsed == now - d.axis_snap_last_decay_timestamp
        decay_periods == elapsed \div DecayPeriodMs
        periods_per_timeout == d.axis_snap_timeout_ms \div DecayPeriodMs
        decay0 == I16(Quot(d.axis_snap_threshold, periods_per_timeout))
        decay_per_50ms == IF decay0 < 1 THEN 1 ELSE decay0
        total_decay == I16(decay_per_50ms * decay_periods)
        accum == d.axis_snap_cross_axis_accum
        decayed ==
            IF accum > 0
            THEN (IF I16(accum - total_decay) < 0 THEN 0
                  ELSE I16(accum - total_decay))
            ELSE IF accum < 0
            THEN (IF I16(accum + total_decay) > 0 THEN 0
                  ELSE I16(accum + total_decay))
            ELSE accum
    IN  IF /\ d.axis_snap_timeout_ms > 0
           /\ d.axis_snap_last_decay_timestamp > 0
           /\ elapsed > 0
           /\ decay_periods > 0
        THEN [s EXCEPT
                !.d = [d EXCEPT !.axis_snap_cross_axis_accum = decayed,
                                !.axis_snap_last_decay_timestamp = now],
                !.divzero = @ \/ periods_per_timeout = 0]
        ELSE s

\* accumulation, unlock and suppression on the cross axis, lines 414-453
CrossAxisStage(s, value) ==
    LET d == s.d
        threshold == d.axis_snap_threshold
        accum0 == d.axis_snap_cross_axis_accum
        current_abs_accum == I16(IF accum0 < 0 THEN -accum0 ELSE accum0)
        is_unsnapped == current_abs_accum >= threshold
        accum1 == IF is_unsnapped
                  THEN I16(current_abs_accum
                           + (IF value > 0 THEN value ELSE -value))
                  ELSE I16(accum0 + value)
        abs_accum == I16(IF accum1 < 0 THEN -accum1 ELSE accum1)
        accum2 == IF abs_accum >= threshold /\ abs_accum > threshold * 2
                  THEN I16((IF accum1 > 0 THEN threshold ELSE -threshold) * 2)
                  ELSE accum1
        d1 == [d EXCEPT !.axis_snap_cross_axis_accum = accum2,
                        !.axis_snap_last_decay_timestamp = now]
    IN  IF abs_accum >= threshold
        THEN [s EXCEPT !.d = d1]
        ELSE [s EXCEPT !.d = d1, !.value = 0]

\* axis snapping, lines 368-457
SnapStage(s, is_x) ==
    IF s.d.axis_snap_mode # ZMK_INPUT_PROCESSOR_AXIS_SNAP_MODE_NONE /\ s.value # 0
    THEN LET is_snapped_axis ==
                 \/ (s.d.axis_snap_mode = ZMK_INPUT_PROCESSOR_AXIS_SNAP_MODE_X
                     /\ is_x)
                 \/ (s.d.axis_snap_mode = ZMK_INPUT_PROCESSOR_AXIS_SNAP_MODE_Y
                     /\ ~is_x)
             s1 == DecayStage(s)
         IN  IF ~is_snapped_axis THEN CrossAxisStage(s1, I16(s.value)) ELSE s1
    ELSE s

\* scaling with carried remainder, lines 459-463
ScalingStage(s, is_x) ==
    IF s.d.scale_multiplier > 0 /\ s.d.scale_divisor > 0
    THEN LET r == scale_val(s.value, s.d.scale_multiplier, s.d.scale_divisor,
                            IF is_x THEN s.rem.x ELSE s.rem.y)
         IN  [s EXCEPT !.value = r[1],
                       !.rem = IF is_x THEN [@ EXCEPT !.x = r[2]]
                               ELSE [@ EXCEPT !.y = r[2]],
                       !.divzero = @ \/ r[3]]
    ELSE s

\* variant of the deactivation scheduling that leaves a pending task alone
deactivation_stage_keeping_pending(s) ==
    IF /\ s.d.temp_layer_enabled
       /\ s.d.temp_layer_layer_active
       /\ ~s.d.temp_layer_keep_active
       /\ s.d.temp_layer_deactivation_work = Idle
    THEN [s EXCEPT
            !.d = [@ EXCEPT !.temp_layer_deactivation_work =
                       k_work_reschedule(s.d.temp_layer_deactivation_delay_ms)],
            !.calls = Append(@, Call("k_work_reschedule",
                                     "temp_layer_deactivation_work",
                                     s.d.temp_layer_deactivation_delay_ms, 1))]
    ELSE s

\* deactivation (re)scheduling, lines 465-470
DeactivationStage(s) ==
    IF /\ s.d.temp_layer_enabled
       /\ s.d.temp_layer_layer_active
       /\ ~s.d.temp_layer_keep_active
    THEN [s EXCEPT
            !.d = [@ EXCEPT !.temp_layer_deactivation_work =
                       k_work_reschedule(s.d.temp_layer_deactivation_delay_ms)],
            !.calls = Append(@, Call("k_work_reschedule",
                                     "temp_layer_deactivation_work",
                                     s.d.temp_layer_deactivation_delay_ms, 1))]
    ELSE s

\* whether the handler processes the event at all, lines 268-282
EventIsProcessed(d, etype, code) ==
    /\ etype = cfg.type
    /\ (code_idx(code, cfg.x_codes) >= 0 \/ code_idx(code, cfg.y_codes) >= 0)
    /\ is_processor_active_for_current_layers(d.active_layers)

runtime_processor_handle_event(d, rem, etype, code, evalue) ==
    LET s0 == [d |-> d, value |-> evalue, code |-> code, rem |-> rem,
               calls |-> << >>, divzero |-> FALSE]
        is_x == code_idx(code, cfg.x_codes) >= 0
        s1 == CodeMappingStage(s0, is_x)
        s2 == ActivationStage(s1)
        s3 == RotationStage(s2, is_x, I16(evalue))
        s4 == InversionStage(s3, is_x)
        s5 == SnapStage(s4, is_x)
        s6 == ScalingStage(s5, is_x)
    IN  IF EventIsProcessed(d, etype, code) THEN DeactivationStage(s6) ELSE s0

(* Inputs of the temp-layer specification *)
\* motion on one axis, a zero-valued sample, and an event of another type
MotionEvents ==
    { <<INPUT_EV_REL, INPUT_REL_X, 1>>, <<INPUT_EV_REL, INPUT_REL_X, 0>>,
      <<INPUT_EV_KEY, INPUT_REL_X, 1>> }

\* motion on both axes, and an event with a code of neither
AxisEvents ==
    { <<INPUT_EV_REL, INPUT_REL_X, 1>>, <<INPUT_EV_REL, INPUT_REL_Y, 60>>,
      <<INPUT_EV_REL, INPUT_REL_WHEEL, 1>> }

\* one event through the handler; the output event is recorded in op
HandleEventStep(etype, code, evalue) ==
    LET r == runtime_processor_handle_event(data, remainder, etype, code, evalue)
    IN  /\ ~fault
        /\ data' = r.d
        /\ remainder' = r.rem
        /\ fault' \in (IF r.divzero THEN {TRUE, FALSE} ELSE {FALSE})
        /\ op' = Op("handle_event",
                    [type |-> etype, code |-> code, value |-> evalue],
                    0, r.calls, << >>, [code |-> r.code, value |-> r.value])
        /\ UNCHANGED <<cfg, inflight, axis_snap_behavior, aml, burst, keymap_layer_state, settings, now,
                       activated_layer, calls>>

HandleEventWith(etype, code, evalue) ==
    HandleEventStep(etype, code, evalue) /\ UNCHANGED <<emitted, last_motion>>

HandleEvent ==
    \E e \in MotionEvents : HandleEventWith(e[1], e[2], e[3])

HandleAxisEvent ==
    \E e \in AxisEvents : HandleEventWith(e[1], e[2], e[3])

----------------------------------------------------------------------------
(* Deferred work handlers *)

\* a pending work item runs once the work queue reaches it
Runnable(w) == w # Idle /\ w <= now

\* variant of the activation handler that marks the layer active whatever
\* the keymap answers
activation_work_handler_ignoring_result(d) ==
    IF ~d.temp_layer_enabled \/ d.temp_layer_layer_active
    THEN <<d, keymap_layer_state, << >>>>
    ELSE LET r == zmk_keymap_layer_activate(d.temp_layer_layer)
             c == Call("zmk_keymap_layer_activate", "", d.temp_layer_layer, r[1])
         IN  <<[d EXCEPT !.temp_layer_layer_active = TRUE], r[2], <<c>>>>

\* temp_layer_activation_work_handler: <<data, layer state, calls>>
temp_layer_activation_work_handler(d) ==
    IF ~d.temp_layer_enabled \/ d.temp_layer_layer_active
    THEN <<d, keymap_layer_state, << >>>>
    ELSE LET r == zmk_keymap_layer_activate(d.temp_layer_layer)
             c == Call("zmk_keymap_layer_activate", "", d.temp_layer_layer, r[1])
         IN  IF r[1] = 0
             THEN <<[d EXCEPT !.temp_layer_layer_active = TRUE], r[2], <<c>>>>
             ELSE <<d, r[2], <<c>>>>

\* variant of the deactivation handler that does not look at keep_active
deactivation_work_handler_ignoring_keep_active(d) ==
    IF ~d.temp_layer_layer_active
    THEN <<d, keymap_layer_state, << >>>>
    ELSE LET r == zmk_keymap_layer_deactivate(d.temp_layer_layer)
             c == Call("zmk_keymap_layer_deactivate", "", d.temp_layer_layer,
                       r[1])
         IN  IF r[1] = 0
             THEN <<[d EXCEPT !.temp_layer_layer_active = FALSE], r[2], <<c>>>>
             ELSE <<d, r[2], <<c>>>>

\* temp_layer_deactivation_work_handler: <<data, layer state, calls>>
temp_layer_deactivation_work_handler(d) ==
    IF ~d.temp_layer_layer_active \/ d.temp_layer_keep_active
    THEN <<d, keymap_layer_state, << >>>>
    ELSE LET r == zmk_keymap_layer_deactivate(d.temp_layer_layer)
             c == Call("zmk_keymap_layer_deactivate", "", d.temp_layer_layer,
                       r[1])
         IN  IF r[1] = 0
             THEN <<[d EXCEPT !.temp_layer_layer_active = FALSE], r[2], <<c>>>>
             ELSE <<d, r[2], <<c>>>>

ActivationWork ==
    /\ ~fault
    /\ Runnable(data.temp_layer_activation_work)
    /\ LET r == temp_layer_activation_work_handler(
                    [data EXCEPT !.temp_layer_activation_work = Idle])
       IN  /\ data' = r[1]
           /\ keymap_layer_state' = r[2]
           /\ activated_layer' =
                  IF r[1].temp_layer_layer_active /\ ~data.temp_layer_layer_active
                  THEN data.temp_layer_layer ELSE activated_layer
           /\ op' = Op("temp_layer_activation_work", << >>, 0, r[3], << >>,
                       NoOut)
    /\ UNCHANGED <<cfg, inflight, axis_snap_behavior, aml, last_motion, emitted, burst, remainder, settings, now, fault, calls>>

DeactivationWork ==
    /\ ~fault
    /\ Runnable(data.temp_layer_deactivation_work)
    /\ LET r == temp_layer_deactivation_work_handler(
                    [data EXCEPT !.temp_layer_deactivation_work = Idle])
       IN  /\ data' = r[1]
           /\ keymap_layer_state' = r[2]
           /\ op' = Op("temp_layer_deactivation_work", << >>, 0, r[3], << >>,
                       NoOut)
    /\ UNCHANGED <<cfg, inflight, axis_snap_behavior, aml, last_motion, emitted, burst, remainder, settings, now, activated_layer, fault,
                   calls>>

\* struct processor_settings as save_processor_settings_work_handler fills it
SettingsLen == 36

\* variant of the record that is filled from the active configuration
processor_settings_from_active(d) ==
    [ len |-> SettingsLen,
      scale_multiplier |-> d.scale_multiplier,
      scale_divisor |-> d.scale_divisor,
      rotation_degrees |-> d.rotation_degrees,
      temp_layer_enabled |-> d.temp_layer_enabled,
      temp_layer_layer |-> d.temp_layer_layer,
      temp_layer_activation_delay_ms |->
          d.temp_layer_activation_delay_ms,
      temp_layer_deactivation_delay_ms |->
          d.temp_layer_deactivation_delay_ms,
      active_layers |-> d.active_layers,
      axis_snap_mode |-> d.axis_snap_mode,
      axis_snap_threshold |-> d.axis_snap_threshold,
      axis_snap_timeout_ms |-> d.axis_snap_timeout_ms,
      xy_to_scroll_enabled |-> d.xy_to_scroll_enabled,
      xy_swap_enabled |-> d.xy_swap_enabled,
      x_invert |-> d.x_invert,
      y_invert |-> d.y_invert ]

processor_settings(d) ==
    [ len |-> SettingsLen,
      scale_multiplier |-> d.persistent_scale_multiplier,
      scale_divisor |-> d.persistent_scale_divisor,
      rotation_degrees |-> d.persistent_rotation_degrees,
      temp_layer_enabled |-> d.persistent_temp_layer_enabled,
      temp_layer_layer |-> d.persistent_temp_layer_layer,
      temp_layer_activation_delay_ms |->
          d.persistent_temp_layer_activation_delay_ms,
      temp_layer_deactivation_delay_ms |->
          d.persistent_temp_layer_deactivation_delay_ms,
      active_layers |-> d.persistent_active_layers,
      axis_snap_mode |-> d.persistent_axis_snap_mode,
      axis_snap_threshold |-> d.persistent_axis_snap_threshold,
      axis_snap_timeout_ms |-> d.persistent_axis_snap_timeout_ms,
      xy_to_scroll_enabled |-> d.persistent_xy_to_scroll_enabled,
      xy_swap_enabled |-> d.persistent_xy_swap_enabled,
      x_invert |-> d.persistent_x_invert,
      y_invert |-> d.persistent_y_invert ]

\* the passage of one millisecond; expired timeouts hand their work to the queue
Elapse(limit) ==
    /\ ~fault
    /\ now < limit
    /\ now' = now + 1
    /\ data' = [data EXCEPT
                  !.save_work = Expire(@, now + 1),
                  !.temp_layer_activation_work = Expire(@, now + 1),
                  !.temp_layer_deactivation_work = Expire(@, now + 1)]
    /\ op' = Op("tick", << >>, 0, << >>, << >>, NoOut)
    /\ UNCHANGED <<cfg, inflight, axis_snap_behavior, aml, last_motion, emitted, burst, remainder, keymap_layer_state, settings,
                   activated_layer, fault, calls>>

Tick == Elapse(MaxTime)

----------------------------------------------------------------------------
(* Key event listeners *)

\* keycode_state_changed_listener
keycode_state_changed_listener(d, state) ==
    IF ~state THEN d ELSE [d EXCEPT !.last_keypress_timestamp = now]

KeycodeStateChanged ==
    \E state \in BOOLEAN :
        /\ ~fault
        /\ data' = keycode_state_changed_listener(data, state)
        /\ op' = Op("keycode_state_changed", [state |-> state], 0, << >>,
                    << >>, NoOut)
        /\ UNCHANGED <<cfg, inflight, axis_snap_behavior, aml, last_motion, emitted, burst, remainder, keymap_layer_state, settings, now,
                       activated_layer, fault, calls>>

\* transparency of a binding, lines 1064-1075 and 1104-1112
binding_is_transparent(binding) ==
    IF cfg.temp_layer_transparent_behavior # NoBehavior
    THEN zmk_behavior_get_binding(binding.behavior_dev)
             = cfg.temp_layer_transparent_behavior
    ELSE binding.behavior_dev = "trans" \/ binding.behavior_dev = "TRANS"

\* the highest active layer's non-transparent binding, lines 1087-1119
RECURSIVE ResolveBindingFrom(_, _)
ResolveBindingFrom(layer_idx, position) ==
    IF layer_idx < 0 THEN NoBinding
    ELSE LET layer_id == zmk_keymap_layer_index_to_id(layer_idx)
             binding == zmk_keymap_get_layer_binding_at_idx(layer_id, position)
         IN  IF /\ zmk_keymap_layer_active(layer_id)
                /\ binding # NoBinding
                /\ ~binding_is_transparent(binding)
             THEN binding
             ELSE ResolveBindingFrom(layer_idx - 1, position)

resolved_binding(position) ==
    ResolveBindingFrom(ZMK_KEYMAP_LAYERS_LEN - 1, position)

\* is the resolved binding &kp, lines 1123-1131
is_kp(binding) ==
    IF cfg.temp_layer_kp_behavior # NoBehavior
    THEN zmk_behavior_get_binding(binding.behavior_dev)
             = cfg.temp_layer_kp_behavior
    ELSE binding.behavior_dev = "kp" \/ binding.behavior_dev = "KEY_PRESS"

\* variant in which a modifier is kept even when a keep list is configured
should_keep_modifier_or_listed(binding) ==
    LET keycode_encoded == binding.param1
        usage_page0 == ZMK_HID_USAGE_PAGE(keycode_encoded)
        usage_id == ZMK_HID_USAGE_ID(keycode_encoded)
        usage_page == IF usage_page0 = 0 THEN HID_USAGE_KEY ELSE usage_page0
        usage == ZMK_HID_USAGE(usage_page, usage_id)
        keep == cfg.temp_layer_keep_keycodes
    IN  \/ \E j \in 1 .. Len(keep) : keep[j] = usage
        \/ is_mod(usage_page, usage_id)

\* keep-keycode list, or the modifier check when none is configured,
\* lines 1135-1157
should_keep(binding) ==
    LET keycode_encoded == binding.param1
        usage_page0 == ZMK_HID_USAGE_PAGE(keycode_encoded)
        usage_id == ZMK_HID_USAGE_ID(keycode_encoded)
        usage_page == IF usage_page0 = 0 THEN HID_USAGE_KEY ELSE usage_page0
        usage == ZMK_HID_USAGE(usage_page, usage_id)
        keep == cfg.temp_layer_keep_keycodes
    IN  IF Len(keep) > 0
        THEN \E j \in 1 .. Len(keep) : keep[j] = usage
        ELSE is_mod(usage_page, usage_id)

\* variant of the decision that skips the check of the temp layer's own
\* binding
PositionDecisionWithoutOwnBinding(d, position) ==
    LET resolved == resolved_binding(position)
    IN  IF \/ ~d.temp_layer_enabled
           \/ ~d.temp_layer_layer_active
           \/ d.temp_layer_keep_active
        THEN "skip"
        ELSE IF resolved # NoBinding /\ is_kp(resolved) /\ should_keep(resolved)
        THEN "keep"
        ELSE "deactivate"

\* what the position listener decides for the channel on a press
PositionDecision(d, position) ==
    LET temp_layer_binding ==
            zmk_keymap_get_layer_binding_at_idx(d.temp_layer_layer, position)
        resolved == resolved_binding(position)
    IN  IF \/ ~d.temp_layer_enabled
           \/ ~d.temp_layer_layer_active
           \/ d.temp_layer_keep_active
        THEN "skip"
        ELSE IF /\ temp_layer_binding # NoBinding
                /\ ~binding_is_transparent(temp_layer_binding)
        THEN "own_binding"
        ELSE IF resolved # NoBinding /\ is_kp(resolved) /\ should_keep(resolved)
        THEN "keep"
        ELSE "deactivate"

\* the listener's deactivation of the temp layer, lines 1167-1175
position_listener_deactivate(d) ==
    LET r == zmk_keymap_layer_deactivate(d.temp_layer_layer)
        cs == << Call("k_work_cancel_delayable",
                      "temp_layer_deactivation_work", 0, 0),
                 Call("zmk_keymap_layer_deactivate", "",
                      d.temp_layer_layer, r[1]) >>
        d1 == [d EXCEPT !.temp_layer_deactivation_work = Idle]
    IN  IF r[1] = 0
        THEN <<[d1 EXCEPT !.temp_layer_layer_active = FALSE], r[2], cs>>
        ELSE <<d1, r[2], cs>>

\* position_state_changed_listener: <<data, layer state, calls>>
position_state_changed_listener(d, state, position) ==
    IF ~state \/ PositionDecision(d, position) # "deactivate"
    THEN <<d, keymap_layer_state, << >>>>
    ELSE position_listener_deactivate(d)

\* presses of every position and of one outside the keymap, and one release
PositionEvents ==
    { <<TRUE, position>> : position \in 0 .. NumPositions } \cup { <<FALSE, 0>> }

PositionStateChangedWith(state, position) ==
        /\ ~fault
        /\ LET r == position_state_changed_listener(data, state, position)
           IN  /\ data' = r[1]
               /\ keymap_layer_state' = r[2]
               /\ op' = Op("position_state_changed",
                           [state |-> state, position |-> position], 0, r[3],
                           << >>, NoOut)
        /\ UNCHANGED <<cfg, inflight, axis_snap_behavior, aml, last_motion, emitted, burst, remainder, settings, now, activated_layer, fault,
                       calls>>

PositionStateChanged ==
    \E e \in PositionEvents : PositionStateChangedWith(e[1], e[2])

\* variant of keep_active that waits deactivation_delay_ms after the release
keep_active_rescheduling_with_delay(d, keep_active) ==
    LET d1 == [d EXCEPT !.temp_layer_keep_active = keep_active]
    IN  IF ~keep_active /\ d1.temp_layer_enabled /\ d1.temp_layer_layer_active
        THEN << [d1 EXCEPT !.temp_layer_deactivation_work =
                    k_work_reschedule(d1.temp_layer_deactivation_delay_ms)],
                << Call("k_work_reschedule", "temp_layer_deactivation_work",
                        d1.temp_layer_deactivation_delay_ms, 1) >> >>
        ELSE << d1, << >> >>

\* zmk_input_processor_runtime_temp_layer_keep_active: <<data, calls>>
zmk_input_processor_runtime_temp_layer_keep_active(d, keep_active) ==
    LET d1 == [d EXCEPT !.temp_layer_keep_active = keep_active]
    IN  IF ~keep_active /\ d1.temp_layer_enabled /\ d1.temp_layer_layer_active
        THEN << [d1 EXCEPT !.temp_layer_deactivation_work = k_work_reschedule(0)],
                << Call("k_work_reschedule", "temp_layer_deactivation_work",
                        0, 1) >> >>
        ELSE << d1, << >> >>

TempLayerKeepActive ==
    \E keep_active \in BOOLEAN :
        /\ ~fault
        /\ LET r == zmk_input_processor_runtime_temp_layer_keep_active(
                        data, keep_active)
           IN  /\ data' = r[1]
               /\ op' = Op("temp_layer_keep_active",
                           [keep_active |-> keep_active], 0, r[2], << >>, NoOut)
        /\ UNCHANGED <<cfg, inflight, axis_snap_behavior, aml, last_motion, emitted, burst, remainder, keymap_layer_state, settings, now,
                       activated_layer, fault, calls>>

\* another behavior of the keymap (&mo, &tog) switches a layer
OtherLayers == { 2 }

KeymapLayerToggle ==
    \E layer \in OtherLayers :
        /\ ~fault
        /\ keymap_layer_state' =
               IF layer \in keymap_layer_state
               THEN zmk_keymap_layer_deactivate(layer)[2]
               ELSE zmk_keymap_layer_activate(layer)[2]
        /\ op' = Op("keymap_layer_toggle", [layer |-> layer], 0, << >>, << >>,
                    NoOut)
        /\ UNCHANGED <<cfg, inflight, axis_snap_behavior, aml, last_motion, emitted, burst, data, remainder, settings, now, activated_layer,
                       fault, calls>>

----------------------------------------------------------------------------
(* Configuration store.  Each setter maps the channel data to              *)
(* [d, ret, saved]: the new data, the value returned before the save is    *)
(* scheduled, and whether schedule_save_processor_settings and             *)
(* raise_state_changed_event are reached.                                  *)

Done(d, persistent) == [d |-> d, ret |-> 0, saved |-> persistent]
Rejected(d) == [d |-> d, ret |-> -EINVAL, saved |-> FALSE]

zmk_input_processor_runtime_set_scaling(d, multiplier, divisor, persistent) ==
    LET d1 == IF multiplier > 0
              THEN [d EXCEPT !.scale_multiplier = multiplier,
                             !.persistent_scale_multiplier =
                                 IF persistent THEN multiplier ELSE @]
              ELSE d
        d2 == IF divisor > 0
              THEN [d1 EXCEPT !.scale_divisor = divisor,
                              !.persistent_scale_divisor =
                                  IF persistent THEN divisor ELSE @]
              ELSE d1
    IN  Done(d2, persistent)

zmk_input_processor_runtime_set_rotation(d, degrees, persistent) ==
    Done(update_rotation_values(
             [d EXCEPT !.rotation_degrees = degrees,
                       !.persistent_rotation_degrees =
                           IF persistent THEN degrees ELSE @]),
         persistent)

zmk_input_processor_runtime_set_temp_layer(d, enabled, layer, activation_delay_ms, deactivation_delay_ms, persistent) ==
    LET d1 == [d EXCEPT
                 !.temp_layer_enabled = enabled,
                 !.temp_layer_layer = layer,
                 !.temp_layer_activation_delay_ms = U16(activation_delay_ms),
                 !.temp_layer_deactivation_delay_ms = U16(deactivation_delay_ms)]
    IN  Done(IF persistent
             THEN [d1 EXCEPT
                     !.persistent_temp_layer_enabled = enabled,
                     !.persistent_temp_layer_layer = layer,
                     !.persistent_temp_layer_activation_delay_ms =
                         U16(activation_delay_ms),
                     !.persistent_temp_layer_deactivation_delay_ms =
                         U16(deactivation_delay_ms)]
             ELSE d1,
             persistent)

zmk_input_processor_runtime_set_temp_layer_enabled(d, enabled, persistent) ==
    Done([d EXCEPT !.temp_layer_enabled = enabled,
                   !.persistent_temp_layer_enabled =
                       IF persistent THEN enabled ELSE @],
         persistent)

zmk_input_processor_runtime_set_temp_layer_layer(d, layer, persistent) ==
    Done([d EXCEPT !.temp_layer_layer = layer,
                   !.persistent_temp_layer_layer =
                       IF persistent THEN layer ELSE @],
         persistent)

zmk_input_processor_runtime_set_temp_layer_activation_delay(d, activation_delay_ms, persistent) ==
    Done([d EXCEPT !.temp_layer_activation_delay_ms = U16(activation_delay_ms),
                   !.persistent_temp_layer_activation_delay_ms =
                       IF persistent THEN U16(activation_delay_ms) ELSE @],
         persistent)

zmk_input_processor_runtime_set_temp_layer_deactivation_delay(d, deactivation_delay_ms, persistent) ==
    Done([d EXCEPT
            !.temp_layer_deactivation_delay_ms = U16(deactivation_delay_ms),
            !.persistent_temp_layer_deactivation_delay_ms =
                IF persistent THEN U16(deactivation_delay_ms) ELSE @],
         persistent)

zmk_input_processor_runtime_set_active_layers(d, layers, persistent) ==
    Done([d EXCEPT !.active_layers = layers,
                   !.persistent_active_layers =
                       IF persistent THEN layers ELSE @],
         persistent)

\* variant of set_axis_snap_mode that stores any mode it is given
set_axis_snap_mode_unchecked(d, mode, persistent) ==
    Done([d EXCEPT !.axis_snap_mode = mode,
                   !.axis_snap_cross_axis_accum = 0,
                   !.persistent_axis_snap_mode =
                       IF persistent THEN mode ELSE @],
         persistent)

zmk_input_processor_runtime_set_axis_snap_mode(d, mode, persistent) ==
    IF mode > ZMK_INPUT_PROCESSOR_AXIS_SNAP_MODE_Y THEN Rejected(d)
    ELSE Done([d EXCEPT !.axis_snap_mode = mode,
                        !.axis_snap_cross_axis_accum = 0,
                        !.persistent_axis_snap_mode =
                            IF persistent THEN mode ELSE @],
              persistent)

zmk_input_processor_runtime_set_axis_snap_threshold(d, threshold, persistent) ==
    Done([d EXCEPT !.axis_snap_threshold = threshold,
                   !.persistent_axis_snap_threshold =
                       IF persistent THEN threshold ELSE @],
         persistent)

zmk_input_processor_runtime_set_axis_snap_timeout(d, timeout_ms, persistent) ==
    Done([d EXCEPT !.axis_snap_timeout_ms = timeout_ms,
                   !.persistent_axis_snap_timeout_ms =
                       IF persistent THEN timeout_ms ELSE @],
         persistent)

zmk_input_processor_runtime_set_axis_snap(d, mode, threshold, timeout_ms, persistent) ==
    IF mode > ZMK_INPUT_PROCESSOR_AXIS_SNAP_MODE_Y THEN Rejected(d)
    ELSE Done([d EXCEPT
                 !.axis_snap_mode = mode,
                 !.axis_snap_threshold = threshold,
                 !.axis_snap_timeout_ms = timeout_ms,
                 !.axis_snap_cross_axis_accum = 0,
                 !.persistent_axis_snap_mode = IF persistent THEN mode ELSE @,
                 !.persistent_axis_snap_threshold =
                     IF persistent THEN threshold ELSE @,
                 !.persistent_axis_snap_timeout_ms =
                     IF persistent THEN timeout_ms ELSE @],
              persistent)

zmk_input_processor_runtime_set_x_invert(d, invert, persistent) ==
    Done([d EXCEPT !.x_invert = invert,
                   !.persistent_x_invert = IF persistent THEN invert ELSE @],
         persistent)

zmk_input_processor_runtime_set_y_invert(d, invert, persistent) ==
    Done([d EXCEPT !.y_invert = invert,
                   !.persistent_y_invert = IF persistent THEN invert ELSE @],
         persistent)

zmk_input_processor_runtime_set_xy_to_scroll_enabled(d, enabled, persistent) ==
    Done([d EXCEPT !.xy_to_scroll_enabled = enabled,
                   !.persistent_xy_to_scroll_enabled =
                       IF persistent THEN enabled ELSE @],
         persistent)

zmk_input_processor_runtime_set_xy_swap_enabled(d, enabled, persistent) ==
    Done([d EXCEPT !.xy_swap_enabled = enabled,
                   !.persistent_xy_swap_enabled =
                       IF persistent THEN enabled ELSE @],
         persistent)

\* variant of restore_persistent that leaves the axis inversion alone
restore_persistent_without_invert(d) ==
    LET d1 == update_rotation_values(
                  [d EXCEPT
                     !.scale_multiplier = d.persistent_scale_multiplier,
                     !.scale_divisor = d.persistent_scale_divisor,
                     !.rotation_degrees = d.persistent_rotation_degrees])
    IN  [d1 EXCEPT
           !.axis_snap_mode = d.persistent_axis_snap_mode,
           !.axis_snap_threshold = d.persistent_axis_snap_threshold,
           !.axis_snap_timeout_ms = d.persistent_axis_snap_timeout_ms,
           !.axis_snap_cross_axis_accum = 0,
           !.axis_snap_last_decay_timestamp = 0]

\* variant of restore_persistent that leaves the cached cos and sin alone
restore_persistent_keeping_cache(d) ==
    [d EXCEPT
       !.scale_multiplier = d.persistent_scale_multiplier,
       !.scale_divisor = d.persistent_scale_divisor,
       !.rotation_degrees = d.persistent_rotation_degrees,
       !.axis_snap_mode = d.persistent_axis_snap_mode,
       !.axis_snap_threshold = d.persistent_axis_snap_threshold,
       !.axis_snap_timeout_ms = d.persistent_axis_snap_timeout_ms,
       !.axis_snap_cross_axis_accum = 0,
       !.axis_snap_last_decay_timestamp = 0,
       !.x_invert = d.persistent_x_invert,
       !.y_invert = d.persistent_y_invert]

\* zmk_input_processor_runtime_restore_persistent
zmk_input_processor_runtime_restore_persistent(d) ==
    LET d1 == update_rotation_values(
                  [d EXCEPT
                     !.scale_multiplier = d.persistent_scale_multiplier,
                     !.scale_divisor = d.persistent_scale_divisor,
                     !.rotation_degrees = d.persistent_rotation_degrees])
    IN  [d1 EXCEPT
           !.axis_snap_mode = d.persistent_axis_snap_mode,
           !.axis_snap_threshold = d.persistent_axis_snap_threshold,
           !.axis_snap_timeout_ms = d.persistent_axis_snap_timeout_ms,
           !.axis_snap_cross_axis_accum = 0,
           !.axis_snap_last_decay_timestamp = 0,
           !.x_invert = d.persistent_x_invert,
           !.y_invert = d.persistent_y_invert]

\* variant of reset that restores the active scaling from the persistent copy
\* before the persistent copy is set to the default
reset_staging_scaling(d) ==
    LET r == zmk_keymap_layer_deactivate(cfg.initial_temp_layer_layer)
        d1 == update_rotation_values([d EXCEPT
                 !.scale_multiplier = d.persistent_scale_multiplier,
                 !.scale_divisor = d.persistent_scale_divisor,
                 !.persistent_scale_multiplier = cfg.initial_scale_multiplier,
                 !.persistent_scale_divisor = cfg.initial_scale_divisor,
                 !.temp_layer_layer = cfg.initial_temp_layer_layer,
                 !.persistent_temp_layer_layer = cfg.initial_temp_layer_layer,
                 !.temp_layer_layer_active = FALSE])
    IN  IF d.temp_layer_layer_active
        THEN << d1, r[2],
                << Call("zmk_keymap_layer_deactivate", "",
                        cfg.initial_temp_layer_layer, r[1]) >> >>
        ELSE << d1, keymap_layer_state, << >> >>

\* reset, up to its test of temp_layer_layer_active (lines 769-791)
reset_to_initial_values(d) ==
    [d EXCEPT
       !.scale_multiplier = cfg.initial_scale_multiplier,
       !.scale_divisor = cfg.initial_scale_divisor,
       !.rotation_degrees = cfg.initial_rotation_degrees,
       !.persistent_scale_multiplier = cfg.initial_scale_multiplier,
       !.persistent_scale_divisor = cfg.initial_scale_divisor,
       !.persistent_rotation_degrees = cfg.initial_rotation_degrees,
       !.temp_layer_enabled = cfg.initial_temp_layer_enabled,
       !.temp_layer_layer = cfg.initial_temp_layer_layer,
       !.temp_layer_activation_delay_ms =
           cfg.initial_temp_layer_activation_delay_ms,
       !.temp_layer_deactivation_delay_ms =
           cfg.initial_temp_layer_deactivation_delay_ms,
       !.persistent_temp_layer_enabled = cfg.initial_temp_layer_enabled,
       !.persistent_temp_layer_layer = cfg.initial_temp_layer_layer,
       !.persistent_temp_layer_activation_delay_ms =
           cfg.initial_temp_layer_activation_delay_ms,
       !.persistent_temp_layer_deactivation_delay_ms =
           cfg.initial_temp_layer_deactivation_delay_ms,
       !.active_layers = cfg.initial_active_layers,
       !.persistent_active_layers = cfg.initial_active_layers]

\* reset, after the temp layer has been dealt with (lines 798-805)
reset_invert_and_rotation(d) ==
    update_rotation_values(
        [d EXCEPT
           !.x_invert = cfg.initial_x_invert,
           !.y_invert = cfg.initial_y_invert,
           !.persistent_x_invert = cfg.initial_x_invert,
           !.persistent_y_invert = cfg.initial_y_invert])

\* zmk_input_processor_runtime_reset: <<data, layer state, calls>>
zmk_input_processor_runtime_reset(d) ==
    LET d1 == reset_to_initial_values(d)
        r == zmk_keymap_layer_deactivate(d1.temp_layer_layer)
        d2 == IF d1.temp_layer_layer_active
              THEN [d1 EXCEPT !.temp_layer_layer_active = FALSE]
              ELSE d1
        d3 == reset_invert_and_rotation(d2)
    IN  IF d1.temp_layer_layer_active
        THEN << d3, r[2],
                << Call("zmk_keymap_layer_deactivate", "", d1.temp_layer_layer,
                        r[1]) >> >>
        ELSE << d3, keymap_layer_state, << >> >>

\* zmk_input_processor_runtime_get_config: the persistent configuration
zmk_input_processor_runtime_get_config(d) ==
    [ scale_multiplier |-> d.persistent_scale_multiplier,
      scale_divisor |-> d.persistent_scale_divisor,
      rotation_degrees |-> d.persistent_rotation_degrees,
      temp_layer_enabled |-> d.persistent_temp_layer_enabled,
      temp_layer_layer |-> d.persistent_temp_layer_layer,
      temp_layer_activation_delay_ms |->
          d.persistent_temp_layer_activation_delay_ms,
      temp_layer_deactivation_delay_ms |->
          d.persistent_temp_layer_deactivation_delay_ms,
      active_layers |-> d.persistent_active_layers,
      axis_snap_mode |-> d.persistent_axis_snap_mode,
      axis_snap_threshold |-> d.persistent_axis_snap_threshold,
      axis_snap_timeout_ms |-> d.persistent_axis_snap_timeout_ms,
      xy_to_scroll_enabled |-> d.persistent_xy_to_scroll_enabled,
      xy_swap_enabled |-> d.persistent_xy_swap_enabled,
      x_invert |-> d.persistent_x_invert,
      y_invert |-> d.persistent_y_invert ]

\* the active configuration, field by field as get_config lists the
\* persistent one
active_config(d) ==
    [ scale_multiplier |-> d.scale_multiplier,
      scale_divisor |-> d.scale_divisor,
      rotation_degrees |-> d.rotation_degrees,
      temp_layer_enabled |-> d.temp_layer_enabled,
      temp_layer_layer |-> d.temp_layer_layer,
      temp_layer_activation_delay_ms |-> d.temp_layer_activation_delay_ms,
      temp_layer_deactivation_delay_ms |-> d.temp_layer_deactivation_delay_ms,
      active_layers |-> d.active_layers,
      axis_snap_mode |-> d.axis_snap_mode,
      axis_snap_threshold |-> d.axis_snap_threshold,
      axis_snap_timeout_ms |-> d.axis_snap_timeout_ms,
      xy_to_scroll_enabled |-> d.xy_to_scroll_enabled,
      xy_swap_enabled |-> d.xy_swap_enabled,
      x_invert |-> d.x_invert,
      y_invert |-> d.y_invert ]

\* variant of the notification that carries the active configuration
raise_event_with_active_config(d) ==
    [ id |-> 0, name |-> cfg.name, config |-> active_config(d) ]

\* raise_state_changed_event: the notification raised.  The compound literal
\* names .name and .config; the id the studio listener reads (info->id =
\* ev->id) is a member the literal leaves zero.
raise_state_changed_event(d) ==
    [ id |-> 0, name |-> cfg.name,
      config |-> zmk_input_processor_runtime_get_config(d) ]

\* runtime_processors: the registered channels by name, in instance order;
\* the modelled channel is the second
runtime_processors == << "encoder", "trackball" >>

\* zmk_input_processor_runtime_find_by_id: the channel's name, "" for NULL
zmk_input_processor_runtime_find_by_id(id) ==
    IF id < Len(runtime_processors) THEN runtime_processors[id + 1] ELSE ""

\* zmk_input_processor_runtime_get_id
zmk_input_processor_runtime_get_id(name) ==
    IF \E i \in 1 .. Len(runtime_processors) : runtime_processors[i] = name
    THEN (CHOOSE i \in 1 .. Len(runtime_processors) :
              /\ runtime_processors[i] = name
              /\ \A j \in 1 .. i - 1 : runtime_processors[j] # name) - 1
    ELSE -1

\* list_processors_callback: the events raised for the modelled channel
list_processors_callback(d) ==
    LET id == zmk_input_processor_runtime_get_id(cfg.name)
    IN  IF id < 0 THEN << >>
        ELSE << [ id |-> U8(id), name |-> cfg.name,
                  config |-> zmk_input_processor_runtime_get_config(d) ] >>

\* schedule_save_processor_settings
schedule_save_processor_settings(d) ==
    [d EXCEPT !.save_work = k_work_reschedule(SaveDebounce)]

----------------------------------------------------------------------------
(* The settings record: saved by the save work, loaded by the settings     *)
(* handler of the "input_proc" subtree.                                    *)

\* save_processor_settings_work_handler
SaveWork ==
    /\ ~fault
    /\ Runnable(data.save_work)
    /\ data' = [data EXCEPT !.save_work = Idle]
    /\ settings' = processor_settings(data)
    /\ burst' = [writes |-> 0, last |-> 0,
                 saved |-> zmk_input_processor_runtime_get_config(data)]
    /\ op' = Op("save_work", << >>, 0,
                <<Call("settings_save_one", "", SettingsLen, 0)>>, << >>, NoOut)
    /\ UNCHANGED <<cfg, inflight, axis_snap_behavior, aml, last_motion, emitted, remainder, keymap_layer_state, now, activated_layer,
                   fault, calls>>

ENOENT == 2

\* variant of the load that leaves the active values as they are
load_persistent_values_only(d, len, record, read_ok) ==
    IF len = SettingsLen /\ read_ok
    THEN [ret |-> 0,
          d |-> [d EXCEPT
            !.persistent_scale_multiplier = record.scale_multiplier,
            !.persistent_scale_divisor = record.scale_divisor,
            !.persistent_rotation_degrees = record.rotation_degrees,
            !.persistent_temp_layer_enabled = record.temp_layer_enabled,
            !.persistent_temp_layer_layer = record.temp_layer_layer,
            !.persistent_temp_layer_activation_delay_ms =
                record.temp_layer_activation_delay_ms,
            !.persistent_temp_layer_deactivation_delay_ms =
                record.temp_layer_deactivation_delay_ms,
            !.persistent_active_layers = record.active_layers,
            !.persistent_axis_snap_mode = record.axis_snap_mode,
            !.persistent_axis_snap_threshold = record.axis_snap_threshold,
            !.persistent_axis_snap_timeout_ms = record.axis_snap_timeout_ms,
            !.persistent_xy_to_scroll_enabled = record.xy_to_scroll_enabled,
            !.persistent_xy_swap_enabled = record.xy_swap_enabled,
            !.persistent_x_invert = record.x_invert,
            !.persistent_y_invert = record.y_invert]]
    ELSE [ret |-> -EINVAL, d |-> d]

\* variant of the load that takes a record of any length, read or not
load_without_checks(d, len, record, read_ok) ==
    load_persistent_values_only(d, SettingsLen, record, TRUE)

\* load_processor_settings_cb: [ret, d]; read_ok is read_cb's rc >= 0
load_processor_settings_cb(d, len, record, read_ok) ==
    IF len = SettingsLen /\ read_ok
    THEN [ret |-> 0,
          d |-> update_rotation_values([d EXCEPT
            !.persistent_scale_multiplier = record.scale_multiplier,
            !.persistent_scale_divisor = record.scale_divisor,
            !.persistent_rotation_degrees = record.rotation_degrees,
            !.persistent_temp_layer_enabled = record.temp_layer_enabled,
            !.persistent_temp_layer_layer = record.temp_layer_layer,
            !.persistent_temp_layer_activation_delay_ms =
                record.temp_layer_activation_delay_ms,
            !.persistent_temp_layer_deactivation_delay_ms =
                record.temp_layer_deactivation_delay_ms,
            !.persistent_active_layers = record.active_layers,
            !.persistent_axis_snap_mode = record.axis_snap_mode,
            !.persistent_axis_snap_threshold = record.axis_snap_threshold,
            !.persistent_axis_snap_timeout_ms = record.axis_snap_timeout_ms,
            !.persistent_xy_to_scroll_enabled = record.xy_to_scroll_enabled,
            !.persistent_xy_swap_enabled = record.xy_swap_enabled,
            !.persistent_x_invert = record.x_invert,
            !.persistent_y_invert = record.y_invert,
            !.scale_multiplier = record.scale_multiplier,
            !.scale_divisor = record.scale_divisor,
            !.rotation_degrees = record.rotation_degrees,
            !.temp_layer_enabled = record.temp_layer_enabled,
            !.temp_layer_layer = record.temp_layer_layer,
            !.temp_layer_activation_delay_ms =
                record.temp_layer_activation_delay_ms,
            !.temp_layer_deactivation_delay_ms =
                record.temp_layer_deactivation_delay_ms,
            !.active_layers = record.active_layers,
            !.axis_snap_mode = record.axis_snap_mode,
            !.axis_snap_threshold = record.axis_snap_threshold,
            !.axis_snap_timeout_ms = record.axis_snap_timeout_ms,
            !.xy_to_scroll_enabled = record.xy_to_scroll_enabled,
            !.xy_swap_enabled = record.xy_swap_enabled,
            !.x_invert = record.x_invert,
            !.y_invert = record.y_invert])]
    ELSE [ret |-> -EINVAL, d |-> d]

\* runtime_processor_settings_load_cb: the channel is found by its name
runtime_processor_settings_load_cb(d, name, len, record, read_ok) ==
    IF name = cfg.name
    THEN load_processor_settings_cb(d, len, record, read_ok)
    ELSE [ret |-> -ENOENT, d |-> d]

\* keys the settings subsystem may hand to the handler, and record lengths
SettingsNames == {"trackball", "trackpad"}
SettingsLengths == {SettingsLen, SettingsLen - 4}

\* the stored record is handed to the handler, under some key and length
SettingsLoad ==
    \E name \in SettingsNames, len \in SettingsLengths, read_ok \in BOOLEAN :
        LET r == runtime_processor_settings_load_cb(data, name, len, settings,
                                                    read_ok)
        IN  /\ ~fault
            /\ settings # NoSettings
            /\ data' = r.d
            /\ op' = Op("settings_load",
                        [name |-> name, len |-> len, read_ok |-> read_ok,
                         before |-> zmk_input_processor_runtime_get_config(data)],
                        r.ret, << >>, << >>, NoOut)
            /\ UNCHANGED <<cfg, inflight, axis_snap_behavior, aml, last_motion, emitted, burst, remainder, keymap_layer_state,
                           settings, now, activated_layer, fault, calls>>

\* the keyboard restarts: the device is initialised again, the stored record
\* is kept, and pending work and unsaved changes are gone
Reboot ==
    /\ ~fault
    /\ data' = runtime_processor_init(cfg)
    /\ remainder' = [x |-> 0, y |-> 0]
    /\ keymap_layer_state' = {0}
    /\ activated_layer' = -1
    /\ burst' = [burst EXCEPT !.writes = 0, !.last = 0]
    /\ op' = Op("init", << >>, 0, << >>, << >>, NoOut)
    /\ UNCHANGED <<cfg, inflight, axis_snap_behavior, aml, last_motion, emitted, settings, now, fault, calls>>

----------------------------------------------------------------------------
(* Configuration-store calls as steps.  A call that persists ends with     *)
(* schedule_save_processor_settings, whose result it returns, and with     *)
(* raise_state_changed_event.                                              *)

ConfigCall(name, args, r) ==
    LET d1 == IF r.saved THEN schedule_save_processor_settings(r.d) ELSE r.d
    IN  /\ ~fault
        /\ calls < MaxCalls
        /\ calls' = calls + 1
        /\ data' = d1
        /\ burst' = IF r.saved
                     THEN [burst EXCEPT !.writes = @ + 1, !.last = now]
                     ELSE burst
        /\ op' = Op(name, args,
                    IF r.saved THEN 1 ELSE r.ret,
                    IF r.saved
                    THEN << Call("k_work_reschedule", "save_work",
                                 SaveDebounce, 1) >>
                    ELSE << >>,
                    IF r.saved THEN << raise_state_changed_event(d1) >>
                    ELSE << >>,
                    NoOut)
        /\ UNCHANGED <<cfg, inflight, axis_snap_behavior, aml, last_motion, emitted, remainder, keymap_layer_state, settings, now,
                       activated_layer, fault>>

(* Arguments the callers of the store are modelled with *)
ScalingArgs == { <<2, 3>>, <<0, 3>>, <<2, 0>> }
RotationArgs == { 90 }
TempLayerIds == { 2, ZMK_KEYMAP_LAYERS_LEN }
DelayArgs == { 3, 65536 + 5 }
ActiveLayersArgs == { 4 }
SnapModeArgs == { ZMK_INPUT_PROCESSOR_AXIS_SNAP_MODE_X, 3 }
SnapThresholdArgs == { 2 }
SnapTimeoutArgs == { 20 }

SetScaling ==
    \E a \in ScalingArgs, persistent \in BOOLEAN :
        ConfigCall("set_scaling",
                   [multiplier |-> a[1], divisor |-> a[2],
                    persistent |-> persistent],
                   zmk_input_processor_runtime_set_scaling(
                       data, a[1], a[2], persistent))

SetRotation ==
    \E degrees \in RotationArgs, persistent \in BOOLEAN :
        ConfigCall("set_rotation",
                   [degrees |-> degrees, persistent |-> persistent],
                   zmk_input_processor_runtime_set_rotation(
                       data, degrees, persistent))

SetTempLayer ==
    \E layer \in TempLayerIds, delay \in DelayArgs, persistent \in BOOLEAN :
        ConfigCall("set_temp_layer",
                   [enabled |-> FALSE, layer |-> layer,
                    activation_delay_ms |-> delay,
                    deactivation_delay_ms |-> delay + 1,
                    persistent |-> persistent],
                   zmk_input_processor_runtime_set_temp_layer(
                       data, FALSE, layer, delay, delay + 1, persistent))

SetTempLayerEnabled ==
    \E enabled \in BOOLEAN, persistent \in BOOLEAN :
        ConfigCall("set_temp_layer_enabled",
                   [enabled |-> enabled, persistent |-> persistent],
                   zmk_input_processor_runtime_set_temp_layer_enabled(
                       data, enabled, persistent))

SetTempLayerLayerWith(layer, persistent) ==
    ConfigCall("set_temp_layer_layer",
               [layer |-> layer, persistent |-> persistent],
               zmk_input_processor_runtime_set_temp_layer_layer(
                   data, layer, persistent))

SetTempLayerLayer ==
    \E layer \in TempLayerIds, persistent \in BOOLEAN :
        SetTempLayerLayerWith(layer, persistent)

\* the temp-layer id changed for the time being (persistent = false)
SetTempLayerLayerTemporary ==
    \E layer \in TempLayerIds : SetTempLayerLayerWith(layer, FALSE)

SetTempLayerActivationDelay ==
    \E delay \in DelayArgs, persistent \in BOOLEAN :
        ConfigCall("set_temp_layer_activation_delay",
                   [activation_delay_ms |-> delay, persistent |-> persistent],
                   zmk_input_processor_runtime_set_temp_layer_activation_delay(
                       data, delay, persistent))

SetTempLayerDeactivationDelay ==
    \E delay \in DelayArgs, persistent \in BOOLEAN :
        ConfigCall("set_temp_layer_deactivation_delay",
                   [deactivation_delay_ms |-> delay, persistent |-> persistent],
                   zmk_input_processor_runtime_set_temp_layer_deactivation_delay(
                       data, delay, persistent))

SetActiveLayers ==
    \E layers \in ActiveLayersArgs, persistent \in BOOLEAN :
        ConfigCall("set_active_layers",
                   [layers |-> layers, persistent |-> persistent],
                   zmk_input_processor_runtime_set_active_layers(
                       data, layers, persistent))

SetAxisSnapMode ==
    \E mode \in SnapModeArgs, persistent \in BOOLEAN :
        ConfigCall("set_axis_snap_mode",
                   [mode |-> mode, persistent |-> persistent],
                   zmk_input_processor_runtime_set_axis_snap_mode(
                       data, mode, persistent))

SetAxisSnapThreshold ==
    \E threshold \in SnapThresholdArgs, persistent \in BOOLEAN :
        ConfigCall("set_axis_snap_threshold",
                   [threshold |-> threshold, persistent |-> persistent],
                   zmk_input_processor_runtime_set_axis_snap_threshold(
                       data, threshold, persistent))

SetAxisSnapTimeout ==
    \E timeout_ms \in SnapTimeoutArgs, persistent \in BOOLEAN :
        ConfigCall("set_axis_snap_timeout",
                   [timeout_ms |-> timeout_ms, persistent |-> persistent],
                   zmk_input_processor_runtime_set_axis_snap_timeout(
                       data, timeout_ms, persistent))

SetAxisSnap ==
    \E mode \in SnapModeArgs, persistent \in BOOLEAN :
        ConfigCall("set_axis_snap",
                   [mode |-> mode, threshold |-> 3, timeout_ms |-> 1000,
                    persistent |-> persistent],
                   zmk_input_processor_runtime_set_axis_snap(
                       data, mode, 3, 1000, persistent))

SetXInvert ==
    \E persistent \in BOOLEAN :
        ConfigCall("set_x_invert",
                   [invert |-> TRUE, persistent |-> persistent],
                   zmk_input_processor_runtime_set_x_invert(
                       data, TRUE, persistent))

SetYInvert ==
    \E persistent \in BOOLEAN :
        ConfigCall("set_y_invert",
                   [invert |-> TRUE, persistent |-> persistent],
                   zmk_input_processor_runtime_set_y_invert(
                       data, TRUE, persistent))

SetXyToScrollEnabled ==
    \E persistent \in BOOLEAN :
        ConfigCall("set_xy_to_scroll_enabled",
                   [enabled |-> TRUE, persistent |-> persistent],
                   zmk_input_processor_runtime_set_xy_to_scroll_enabled(
                       data, TRUE, persistent))

SetXySwapEnabled ==
    \E persistent \in BOOLEAN :
        ConfigCall("set_xy_swap_enabled",
                   [enabled |-> TRUE, persistent |-> persistent],
                   zmk_input_processor_runtime_set_xy_swap_enabled(
                       data, TRUE, persistent))

RestorePersistent ==
    /\ ~fault
    /\ calls < MaxCalls
    /\ calls' = calls + 1
    /\ data' = zmk_input_processor_runtime_restore_persistent(data)
    /\ op' = Op("restore_persistent",
                [accum_before |-> data.axis_snap_cross_axis_accum,
                 active_before |-> active_config(data)],
                0, << >>, << >>, NoOut)
    /\ UNCHANGED <<cfg, inflight, axis_snap_behavior, aml, last_motion, emitted, burst, remainder, keymap_layer_state, settings, now,
                   activated_layer, fault>>

Reset ==
    LET r == zmk_input_processor_runtime_reset(data)
        d1 == schedule_save_processor_settings(r[1])
    IN  /\ ~fault
        /\ calls < MaxCalls
        /\ calls' = calls + 1
        /\ data' = d1
        /\ burst' = [burst EXCEPT !.writes = @ + 1, !.last = now]
        /\ keymap_layer_state' = r[2]
        /\ op' = Op("reset", << >>, 1,
                    r[3] \o << Call("k_work_reschedule", "save_work",
                                    SaveDebounce, 1) >>,
                    << raise_state_changed_event(d1) >>, NoOut)
        /\ UNCHANGED <<cfg, inflight, axis_snap_behavior, aml, last_motion, emitted, remainder, settings, now, activated_layer, fault>>

----------------------------------------------------------------------------
(* The momentary axis-snap behavior, behavior_input_processor_axis_snap.c  *)

AxisSnapHoldTimeout == 1000

\* on_keymap_binding_pressed: <<behavior data, channel data, return value>>
on_keymap_binding_pressed(b, d, param1, param2) ==
    LET r == zmk_input_processor_runtime_set_axis_snap(
                 d, U8(param1), U16(param2), AxisSnapHoldTimeout, FALSE)
    IN  IF r.ret < 0 THEN <<b, r.d, r.ret>>
        ELSE <<[b EXCEPT !.is_active = TRUE], r.d, 1>>

\* on_keymap_binding_released
on_keymap_binding_released(b, d) ==
    IF ~b.is_active THEN <<b, d, 0>>
    ELSE <<[b EXCEPT !.is_active = FALSE],
           zmk_input_processor_runtime_restore_persistent(d), 1>>

\* bindings: lock to Y with threshold 50, and a mode the channel rejects
AxisSnapBindings ==
    { <<ZMK_INPUT_PROCESSOR_AXIS_SNAP_MODE_Y, 50>>, <<3, 50>> }

AxisSnapPressed ==
    \E p \in AxisSnapBindings :
        LET r == on_keymap_binding_pressed(axis_snap_behavior, data, p[1], p[2])
        IN  /\ ~fault
            /\ data' = r[2]
            /\ axis_snap_behavior' =
                   IF r[3] < 0 THEN r[1]
                   ELSE [r[1] EXCEPT !.before = active_config(data)]
            /\ op' = Op("binding_pressed", [param1 |-> p[1], param2 |-> p[2]],
                        r[3], << >>, << >>, NoOut)
            /\ UNCHANGED <<cfg, inflight, aml, last_motion, emitted, burst, remainder,
                           keymap_layer_state, settings, now, activated_layer,
                           fault, calls>>

AxisSnapReleased ==
    LET r == on_keymap_binding_released(axis_snap_behavior, data)
    IN  /\ ~fault
        /\ data' = r[2]
        /\ axis_snap_behavior' = r[1]
        /\ op' = Op("binding_released", << >>, r[3], << >>, << >>, NoOut)
        /\ UNCHANGED <<cfg, inflight, aml, last_motion, emitted, burst, remainder,
                       keymap_layer_state, settings, now, activated_layer,
                       fault, calls>>

----------------------------------------------------------------------------
(* The auto-mouse-layer processor, input_processor_auto_mouse_layer.c.     *)
(* Three threads call into it: the input thread (motion samples), the      *)
(* event thread (layer, position and keycode events, set_keep_active) and  *)
(* the system work queue (the deactivation work).  A handler is entered,   *)
(* takes data->lock, runs its critical section and releases the lock.      *)

AmlThreads == {"input", "events", "workq"}

AtRest == [at |-> "idle", fn |-> "", arg |-> 0]

\* auto_mouse_layer_init, with the devicetree properties of the instance
auto_mouse_layer_init(layer, require_prior_idle_ms, time_to_max_ms) ==
    [ present |-> TRUE,
      layer |-> layer,
      require_prior_idle_ms |-> require_prior_idle_ms,
      time_to_max_ms |-> time_to_max_ms,
      is_active |-> FALSE,
      keep_active |-> FALSE,
      last_keycode_timestamp |-> 0,
      deactivate_work |-> Idle,
      lock |-> [owner |-> "", count |-> 0],
      pc |-> [t \in AmlThreads |-> AtRest],
      arrivals |-> 0 ]

\* k_mutex_lock(K_FOREVER) returns once the mutex is free or already owned
\* by the caller; k_mutex counts the owner's nested locks
k_mutex_available(l, t) == l.count = 0 \/ l.owner = t
k_mutex_lock(l, t) == [owner |-> t, count |-> l.count + 1]
k_mutex_unlock(l) ==
    [owner |-> IF l.count = 1 THEN "" ELSE l.owner, count |-> l.count - 1]

\* the result of a critical section: data, keymap layer state, calls made
AmlResult(a, layers, cs) == [a |-> a, layers |-> layers, calls |-> cs]

\* the critical section of handle_layer_state_changed, lines 87-92
handle_layer_state_changed(a, layers) ==
    IF a.layer \notin layers /\ a.is_active
    THEN AmlResult([a EXCEPT !.is_active = FALSE, !.deactivate_work = Idle],
                   layers,
                   << Call("k_work_cancel_delayable", "deactivate_work", 0, 0) >>)
    ELSE AmlResult(a, layers, << >>)

\* update_layer_state.  A layer switch that changes the keymap raises
\* zmk_layer_state_changed before it returns; the processor's own listener
\* runs on the calling thread, which locks the mutex a second time.
update_layer_state(a, activate) ==
    IF a.is_active = activate THEN AmlResult(a, keymap_layer_state, << >>)
    ELSE LET a1 == [a EXCEPT !.is_active = activate]
             r == IF activate THEN zmk_keymap_layer_activate(a.layer)
                  ELSE zmk_keymap_layer_deactivate(a.layer)
             c == Call(IF activate THEN "zmk_keymap_layer_activate"
                       ELSE "zmk_keymap_layer_deactivate", "", a.layer, r[1])
             n == IF r[2] # keymap_layer_state
                  THEN handle_layer_state_changed(
                           [a1 EXCEPT !.lock = k_mutex_unlock(
                                                   k_mutex_lock(@, @.owner))],
                           r[2])
                  ELSE AmlResult(a1, r[2], << >>)
         IN  AmlResult(n.a, n.layers, <<c>> \o n.calls)

\* variant of the work callback that switches the layer off by itself
work_cb_deactivating_directly(a) ==
    IF ~a.keep_active /\ a.is_active
    THEN AmlResult(a, zmk_keymap_layer_deactivate(a.layer)[2],
                   << Call("zmk_keymap_layer_deactivate", "", a.layer, 0) >>)
    ELSE AmlResult(a, keymap_layer_state, << >>)

\* the critical section of layer_deactivate_work_cb, lines 69-72
layer_deactivate_work_cb(a) ==
    IF ~a.keep_active /\ a.is_active
    THEN update_layer_state(a, FALSE)
    ELSE AmlResult(a, keymap_layer_state, << >>)

\* the critical section of handle_position_state_changed, lines 112-130
handle_position_state_changed(a, position) ==
    LET binding == zmk_keymap_get_layer_binding_at_idx(a.layer, position)
    IN  IF /\ a.is_active
           /\ binding # NoBinding
           /\ binding.behavior_dev \in {"trans", "none"}
        THEN LET r == update_layer_state(a, FALSE)
             IN  AmlResult([r.a EXCEPT !.deactivate_work = Idle], r.layers,
                           r.calls \o << Call("k_work_cancel_delayable",
                                              "deactivate_work", 0, 0) >>)
        ELSE AmlResult(a, keymap_layer_state, << >>)

\* the critical section of handle_keycode_state_changed, line 150
handle_keycode_state_changed(a, timestamp) ==
    AmlResult([a EXCEPT !.last_keycode_timestamp = timestamp],
              keymap_layer_state, << >>)

\* the critical section of auto_mouse_layer_handle_event, lines 188-200
auto_mouse_layer_handle_event(a) ==
    LET can_activate ==
            (now - a.last_keycode_timestamp) >= a.require_prior_idle_ms
        r == IF ~a.is_active /\ can_activate
             THEN update_layer_state(a, TRUE)
             ELSE AmlResult(a, keymap_layer_state, << >>)
    IN  IF r.a.is_active /\ r.a.time_to_max_ms > 0
        THEN AmlResult([r.a EXCEPT !.deactivate_work =
                                       k_work_reschedule(a.time_to_max_ms)],
                       r.layers,
                       r.calls \o << Call("k_work_reschedule", "deactivate_work",
                                          a.time_to_max_ms, 1) >>)
        ELSE r

\* variant of set_keep_active that starts no timer when the flag is cleared
set_keep_active_without_reschedule(a, keep_active) ==
    IF keep_active
    THEN AmlResult([a EXCEPT !.keep_active = TRUE, !.deactivate_work = Idle],
                   keymap_layer_state,
                   << Call("k_work_cancel_delayable", "deactivate_work", 0, 0) >>)
    ELSE AmlResult([a EXCEPT !.keep_active = FALSE], keymap_layer_state, << >>)

\* the critical section of
\* zmk_input_processor_auto_mouse_layer_set_keep_active, lines 217-228
zmk_input_processor_auto_mouse_layer_set_keep_active(a, keep_active) ==
    LET a1 == [a EXCEPT !.keep_active = keep_active]
    IN  IF ~keep_active /\ a1.is_active
        THEN IF a1.time_to_max_ms > 0
             THEN AmlResult([a1 EXCEPT !.deactivate_work =
                                           k_work_reschedule(a.time_to_max_ms)],
                            keymap_layer_state,
                            << Call("k_work_reschedule", "deactivate_work",
                                    a.time_to_max_ms, 1) >>)
             ELSE AmlResult(a1, keymap_layer_state, << >>)
        ELSE IF keep_active
        THEN AmlResult([a1 EXCEPT !.deactivate_work = Idle], keymap_layer_state,
                       << Call("k_work_cancel_delayable", "deactivate_work",
                               0, 0) >>)
        ELSE AmlResult(a1, keymap_layer_state, << >>)

\* the critical section of the handler a thread is in
CriticalSection(a, fn, arg) ==
    CASE fn = "auto_mouse_layer_handle_event" -> auto_mouse_layer_handle_event(a)
      [] fn = "handle_layer_state_changed" ->
             handle_layer_state_changed(a, keymap_layer_state)
      [] fn = "handle_position_state_changed" ->
             handle_position_state_changed(a, arg)
      [] fn = "handle_keycode_state_changed" ->
             handle_keycode_state_changed(a, now)
      [] fn = "set_keep_active" ->
             zmk_input_processor_auto_mouse_layer_set_keep_active(a, arg = 1)
      [] fn = "layer_deactivate_work_cb" -> layer_deactivate_work_cb(a)

MaxAmlTime == 5

\* events and samples that arrive within one millisecond
MaxArrivals == 2

\* the variables of the runtime channel, which the processor does not touch
channel_vars ==
    <<cfg, data, remainder, settings, activated_layer, fault, calls, emitted,
      burst, inflight, axis_snap_behavior, last_motion>>

\* an event or a sample arrives: its thread enters the handler and reaches
\* its k_mutex_lock
AmlEnter(t, fn, arg) ==
    /\ aml.pc[t].at = "idle"
    /\ aml.arrivals < MaxArrivals
    /\ aml' = [aml EXCEPT !.pc[t] = [at |-> "lock", fn |-> fn, arg |-> arg],
                          !.arrivals = @ + 1]
    /\ op' = Op("enter", [thread |-> t, fn |-> fn, arg |-> arg], 0, << >>,
                << >>, NoOut)
    /\ UNCHANGED <<channel_vars, now>>

\* a sample with movement; the timer it starts expires within the horizon
MotionSample ==
    /\ now + aml.time_to_max_ms <= MaxAmlTime
    /\ AmlEnter("input", "auto_mouse_layer_handle_event", 1)
    /\ UNCHANGED keymap_layer_state

KeyPositionPressed ==
    \E position \in {0, 1} :
        /\ AmlEnter("events", "handle_position_state_changed", position)
        /\ UNCHANGED keymap_layer_state

KeycodePressed ==
    /\ AmlEnter("events", "handle_keycode_state_changed", 1)
    /\ UNCHANGED keymap_layer_state

\* another behavior switches the processor's layer; the keymap raises
\* zmk_layer_state_changed
LayerStateChanged ==
    /\ AmlEnter("events", "handle_layer_state_changed", 0)
    /\ keymap_layer_state' =
           IF aml.layer \in keymap_layer_state
           THEN zmk_keymap_layer_deactivate(aml.layer)[2]
           ELSE zmk_keymap_layer_activate(aml.layer)[2]

SetKeepActive ==
    \E keep_active \in {0, 1} :
        /\ keep_active = 0 => now + aml.time_to_max_ms <= MaxAmlTime
        /\ AmlEnter("events", "set_keep_active", keep_active)
        /\ UNCHANGED keymap_layer_state

\* the work queue takes the expired work and calls layer_deactivate_work_cb
DeactivateWorkRuns ==
    /\ aml.pc["workq"].at = "idle"
    /\ Runnable(aml.deactivate_work)
    /\ aml' = [aml EXCEPT
                 !.deactivate_work = Idle,
                 !.pc["workq"] = [at |-> "lock",
                                  fn |-> "layer_deactivate_work_cb", arg |-> 0]]
    /\ op' = Op("enter", [thread |-> "workq",
                          fn |-> "layer_deactivate_work_cb", arg |-> 0],
                0, << >>, << >>, NoOut)
    /\ UNCHANGED <<channel_vars, now, keymap_layer_state>>

\* handlers that return before they lock: a sample without movement, the
\* release of a key
ReturnsEarly ==
    \E fn \in {"auto_mouse_layer_handle_event", "handle_position_state_changed",
               "handle_keycode_state_changed"} :
        /\ aml.pc[IF fn = "auto_mouse_layer_handle_event"
                  THEN "input" ELSE "events"].at = "idle"
        /\ op' = Op("returns_early", [fn |-> fn], 0, << >>, << >>, NoOut)
        /\ UNCHANGED <<channel_vars, now, keymap_layer_state, aml>>

AmlLock(t) ==
    /\ aml.pc[t].at = "lock"
    /\ k_mutex_available(aml.lock, t)
    /\ aml' = [aml EXCEPT !.lock = k_mutex_lock(@, t), !.pc[t].at = "locked"]
    /\ op' = Op("k_mutex_lock", [thread |-> t], 0, << >>, << >>, NoOut)
    /\ UNCHANGED <<channel_vars, now, keymap_layer_state>>

AmlCriticalSection(t) ==
    /\ aml.pc[t].at = "locked"
    /\ LET r == CriticalSection(aml, aml.pc[t].fn, aml.pc[t].arg)
       IN  /\ aml' = [r.a EXCEPT !.pc[t].at = "unlock"]
           /\ keymap_layer_state' = r.layers
           /\ op' = Op(aml.pc[t].fn, [thread |-> t, arg |-> aml.pc[t].arg],
                       0, r.calls, << >>, NoOut)
    /\ UNCHANGED <<channel_vars, now>>

AmlUnlock(t) ==
    /\ aml.pc[t].at = "unlock"
    /\ aml' = [aml EXCEPT !.lock = k_mutex_unlock(@), !.pc[t] = AtRest]
    /\ op' = Op("k_mutex_unlock", [thread |-> t], 0, << >>, << >>, NoOut)
    /\ UNCHANGED <<channel_vars, now, keymap_layer_state>>

AmlAtRest == \A t \in AmlThreads : aml.pc[t].at = "idle"

\* a millisecond passes; handlers complete well within one
AmlTick ==
    /\ AmlAtRest
    /\ now < MaxAmlTime
    /\ now' = now + 1
    /\ aml' = [aml EXCEPT !.deactivate_work = Expire(@, now + 1),
                          !.arrivals = 0]
    /\ op' = Op("tick", << >>, 0, << >>, << >>, NoOut)
    /\ UNCHANGED <<channel_vars, keymap_layer_state>>

----------------------------------------------------------------------------
(* Specifications *)

\* the temp-layer state machine
Next ==
    \/ HandleEvent
    \/ ActivationWork
    \/ DeactivationWork
    \/ Tick
    \/ KeycodeStateChanged
    \/ PositionStateChanged
    \/ TempLayerKeepActive
    \/ KeymapLayerToggle
    \/ SetTempLayerLayerTemporary

Spec == Init /\ [][Next]_vars

\* the configuration store
\* list_input_processors_work_handler: one event for every registered
\* channel; the event of the modelled channel is recorded
ListInputProcessors ==
    /\ ~fault
    /\ op' = Op("list_input_processors", << >>, 0, << >>,
                list_processors_callback(data), NoOut)
    /\ UNCHANGED <<cfg, inflight, axis_snap_behavior, aml, last_motion, emitted, burst, data, remainder,
                   keymap_layer_state, settings, now, activated_layer, fault,
                   calls>>

NextCfg ==
    \/ SetScaling
    \/ SetRotation
    \/ SetTempLayer
    \/ SetTempLayerEnabled
    \/ SetTempLayerLayer
    \/ SetTempLayerActivationDelay
    \/ SetTempLayerDeactivationDelay
    \/ SetActiveLayers
    \/ SetAxisSnapMode
    \/ SetAxisSnapThreshold
    \/ SetAxisSnapTimeout
    \/ SetAxisSnap
    \/ SetXInvert
    \/ SetYInvert
    \/ SetXyToScrollEnabled
    \/ SetXySwapEnabled
    \/ RestorePersistent
    \/ Reset
    \/ HandleAxisEvent
    \/ ListInputProcessors

SpecCfg == Init /\ [][NextCfg]_vars

----------------------------------------------------------------------------
(* The transform pipeline on its own: channels whose devicetree disables   *)
(* the temp layer, fed with samples on both axes.                          *)

PipelineConfig ==
    [Config(<< >>, NoBehavior, NoBehavior) EXCEPT
        !.initial_temp_layer_enabled = FALSE]

\* rotation: channels rotated by a quarter turn and by 45 degrees
RotationConfigs ==
    { [PipelineConfig EXCEPT !.initial_rotation_degrees = deg] :
          deg \in {90, 45} }

InitRotation == \E c \in RotationConfigs : Constructed(c)

RotationSamples ==
    { <<INPUT_EV_REL, code, v>> :
          code \in {INPUT_REL_X, INPUT_REL_Y}, v \in {10, 20, -3} }

HandleRotationSample ==
    \E e \in RotationSamples : HandleEventWith(e[1], e[2], e[3])

NextRotation ==
    \/ HandleRotationSample
    \/ SetRotation

SpecRotation == InitRotation /\ [][NextRotation]_vars

\* rotation of samples at the ends of the int16_t range
ExtremeSamples ==
    { <<INPUT_EV_REL, code, v>> :
          code \in {INPUT_REL_X, INPUT_REL_Y}, v \in {32767, -32768, 10} }

HandleExtremeSample ==
    \E e \in ExtremeSamples : HandleEventWith(e[1], e[2], e[3])

NextNarrowing ==
    \/ HandleExtremeSample
    \/ SetRotation

SpecNarrowing == InitRotation /\ [][NextNarrowing]_vars

\* scaling: channels with a ratio below one, above one, and with a large
\* multiplier
MaxSamples == 4

ScalingConfigs ==
    { [PipelineConfig EXCEPT !.initial_scale_multiplier = r[1],
                             !.initial_scale_divisor = r[2]] :
          r \in { <<1, 2>>, <<3, 2>>, <<7, 3>>, <<200, 100>> } }

InitScaling == \E c \in ScalingConfigs : Constructed(c)

ScalingInputs == {1, -1, 5, -7, 200}

\* one more sample of a run of X samples that all carry the same value
ConstantSample ==
    \E v \in ScalingInputs :
        /\ emitted.n < MaxSamples
        /\ emitted.n = 0 \/ v = emitted.v
        /\ HandleEventStep(INPUT_EV_REL, INPUT_REL_X, v)
        /\ emitted' = [n |-> emitted.n + 1,
                       sum |-> emitted.sum + op'.out.value,
                       v |-> v]
        /\ UNCHANGED last_motion

\* a sample on the other axis in between
OtherAxisSample == HandleEventWith(INPUT_EV_REL, INPUT_REL_Y, 1)

NextScaling ==
    \/ ConstantSample
    \/ OtherAxisSample

SpecScaling == InitScaling /\ [][NextScaling]_vars

\* axis snap: channels locked to X and to Y, with a timeout of two and of
\* three decay periods
MaxSnapTime == 150

SnapConfigs ==
    { [PipelineConfig EXCEPT !.initial_axis_snap_mode = mode,
                             !.initial_axis_snap_threshold = 100,
                             !.initial_axis_snap_timeout_ms = timeout] :
          mode \in { ZMK_INPUT_PROCESSOR_AXIS_SNAP_MODE_X,
                     ZMK_INPUT_PROCESSOR_AXIS_SNAP_MODE_Y },
          timeout \in {100, 150} }

InitSnap == \E c \in SnapConfigs : Constructed(c)

\* samples on both axes: below the threshold in both directions, and the
\* least value of an int16_t
SnapSamples ==
    { <<INPUT_EV_REL, code, v>> :
          code \in {INPUT_REL_X, INPUT_REL_Y}, v \in {60, -40, -32768} }

HandleSnapSample ==
    \E e \in SnapSamples : HandleEventWith(e[1], e[2], e[3])

\* one decay period passes without a sample
Advance ==
    /\ ~fault
    /\ now < MaxSnapTime
    /\ now' = now + DecayPeriodMs
    /\ data' = [data EXCEPT
                  !.save_work = Expire(@, now + DecayPeriodMs),
                  !.temp_layer_activation_work = Expire(@, now + DecayPeriodMs),
                  !.temp_layer_deactivation_work =
                      Expire(@, now + DecayPeriodMs)]
    /\ op' = Op("advance", << >>, 0, << >>, << >>, NoOut)
    /\ UNCHANGED <<cfg, inflight, axis_snap_behavior, aml, last_motion, emitted, burst, remainder, keymap_layer_state, settings,
                   activated_layer, fault, calls>>

NextSnap ==
    \/ HandleSnapSample
    \/ Advance
    \/ SetAxisSnapThreshold

SpecSnap == InitSnap /\ [][NextSnap]_vars

\* axis snap with a timeout shorter than one decay period set at run time
NextDecay ==
    \/ HandleSnapSample
    \/ Advance
    \/ SetAxisSnapTimeout

InitDecay ==
    Constructed([PipelineConfig EXCEPT
                    !.initial_axis_snap_mode =
                        ZMK_INPUT_PROCESSOR_AXIS_SNAP_MODE_X,
                    !.initial_axis_snap_threshold = 100,
                    !.initial_axis_snap_timeout_ms = 100])

SpecDecay == InitDecay /\ [][NextDecay]_vars

\* axis snap across idle periods: one decay period, and 65.5 seconds
MaxIdleTime == 65700

IdlePeriods == {DecayPeriodMs, 1310 * DecayPeriodMs}

IdleSamples ==
    { <<INPUT_EV_REL, INPUT_REL_X, 1>>, <<INPUT_EV_REL, INPUT_REL_Y, 60>>,
      <<INPUT_EV_REL, INPUT_REL_Y, -40>> }

HandleIdleSample ==
    \E e \in IdleSamples : HandleEventWith(e[1], e[2], e[3])

\* no sample arrives for ms milliseconds; the clock is followed through the
\* first decay periods and again once the long idle period has passed
IdleFor ==
    \E ms \in IdlePeriods :
        /\ ~fault
        /\ now + ms <= MaxIdleTime
        /\ now + ms <= MaxSnapTime \/ now + ms > 1310 * DecayPeriodMs
        /\ now' = now + ms
        /\ data' = [data EXCEPT
                      !.save_work = Expire(@, now + ms),
                      !.temp_layer_activation_work = Expire(@, now + ms),
                      !.temp_layer_deactivation_work = Expire(@, now + ms)]
        /\ op' = Op("idle", [ms |-> ms], 0, << >>, << >>, NoOut)
        /\ UNCHANGED <<cfg, inflight, axis_snap_behavior, aml, last_motion,
                       emitted, burst, remainder, keymap_layer_state, settings,
                       activated_layer, fault, calls>>

NextIdle ==
    \/ HandleIdleSample
    \/ IdleFor

SpecIdle == InitDecay /\ [][NextIdle]_vars

\* axis inversion: channels with every combination of swap and inversion
\* flags, unrotated and rotated by a quarter turn
InvertConfigs ==
    { [PipelineConfig EXCEPT !.initial_rotation_degrees = deg,
                             !.initial_xy_swap_enabled = swap,
                             !.initial_x_invert = xi,
                             !.initial_y_invert = yi] :
          deg \in {0, 90}, swap \in BOOLEAN, xi \in BOOLEAN, yi \in BOOLEAN }

InitInvert == \E c \in InvertConfigs : Constructed(c)

InvertSamples ==
    { <<INPUT_EV_REL, code, v>> :
          code \in {INPUT_REL_X, INPUT_REL_Y}, v \in {5, -7} }

HandleInvertSample ==
    \E e \in InvertSamples : HandleEventWith(e[1], e[2], e[3])

NextInvert ==
    \/ HandleInvertSample
    \/ SetXySwapEnabled

SpecInvert == InitInvert /\ [][NextInvert]_vars

\* the whole pipeline: unrotated and quarter-turn channels, scaled by 1/1 and
\* by 1/2, with and without a lock to the X axis
OrderConfigs ==
    { [PipelineConfig EXCEPT !.initial_rotation_degrees = deg,
                             !.initial_scale_divisor = div,
                             !.initial_x_invert = xi,
                             !.initial_axis_snap_mode = mode,
                             !.initial_axis_snap_threshold = 12] :
          deg \in {0, 90}, div \in {1, 2}, xi \in BOOLEAN,
          mode \in { ZMK_INPUT_PROCESSOR_AXIS_SNAP_MODE_NONE,
                     ZMK_INPUT_PROCESSOR_AXIS_SNAP_MODE_X } }

InitOrder == \E c \in OrderConfigs : Constructed(c)

OrderSamples ==
    { <<INPUT_EV_REL, code, v>> :
          code \in {INPUT_REL_X, INPUT_REL_Y}, v \in {10, -3} }

HandleOrderSample ==
    \E e \in OrderSamples : HandleEventWith(e[1], e[2], e[3])

NextOrder ==
    \/ HandleOrderSample
    \/ SetYInvert

SpecOrder == InitOrder /\ [][NextOrder]_vars

----------------------------------------------------------------------------
(* The debounced save: store calls, the clock and the save work.  The      *)
(* system work queue takes a queued item before the next millisecond has   *)
(* passed and before the next store call is made.                          *)

MaxSaveTime == 5

InitSave == Constructed(Config(<< >>, NoBehavior, NoBehavior))

StoreWrite ==
    /\ ~Runnable(data.save_work)
    /\ now + SaveDebounce <= MaxSaveTime
    /\ \/ SetScaling
       \/ SetXInvert
       \/ Reset

SaveTick == ~Runnable(data.save_work) /\ Elapse(MaxSaveTime)

NextSave ==
    \/ StoreWrite
    \/ SaveTick
    \/ SaveWork

SpecSave ==
    InitSave /\ [][NextSave]_vars /\ WF_vars(SaveTick) /\ WF_vars(SaveWork)

\* the stored record across restarts: store calls, the save work, restarts
\* and loads of the stored record
ConfigWrite ==
    /\ ~Runnable(data.save_work)
    /\ now + SaveDebounce <= MaxSaveTime
    /\ \/ SetScaling
       \/ SetRotation
       \/ SetTempLayer
       \/ SetActiveLayers
       \/ SetAxisSnap
       \/ SetYInvert
       \/ SetXySwapEnabled
       \/ SetXyToScrollEnabled

NextLoad ==
    \/ ConfigWrite
    \/ SaveTick
    \/ SaveWork
    \/ Reboot
    \/ SettingsLoad

SpecLoad == InitSave /\ [][NextLoad]_vars

\* the rotation across everything that sets it: temporary and persistent
\* set_rotation, restore_persistent, reset, the save work, restarts and loads
RotationWrite ==
    /\ ~Runnable(data.save_work)
    /\ now + SaveDebounce <= MaxSaveTime
    /\ \/ SetRotation
       \/ RestorePersistent
       \/ Reset

NextCache ==
    \/ RotationWrite
    \/ SaveTick
    \/ SaveWork
    \/ Reboot
    \/ SettingsLoad

SpecCache == InitSave /\ [][NextCache]_vars

\* reset against the temp layer: motion, the two temp-layer tasks, the clock,
\* changes of the temp-layer id and of the scaling, and reset
MaxResetTime == 4

ResetTick == Elapse(MaxResetTime)

NextReset ==
    \/ HandleEvent
    \/ ActivationWork
    \/ DeactivationWork
    \/ ResetTick
    \/ SetTempLayerLayer
    \/ SetScaling
    \/ Reset

SpecReset == InitSave /\ [][NextReset]_vars

\* the temp layer switched off by other means: another behavior of the keymap
\* deactivates the layer designated as the temp layer.  The channel's two
\* listeners subscribe to keycode and position events only, so no handler of
\* the channel runs on the layer-state change.
ExternalLayerDeactivate ==
    /\ ~fault
    /\ data.temp_layer_layer \in keymap_layer_state
    /\ keymap_layer_state' = zmk_keymap_layer_deactivate(data.temp_layer_layer)[2]
    /\ op' = Op("keymap_layer_deactivate", [layer |-> data.temp_layer_layer],
                0, << >>, << >>, NoOut)
    /\ UNCHANGED <<cfg, inflight, axis_snap_behavior, aml, last_motion, emitted, burst, data, remainder, settings, now,
                   activated_layer, fault, calls>>

NextExternal ==
    \/ HandleEvent
    \/ ActivationWork
    \/ DeactivationWork
    \/ ResetTick
    \/ KeycodeStateChanged
    \/ TempLayerKeepActive
    \/ ExternalLayerDeactivate

SpecExternal == InitSave /\ [][NextExternal]_vars

\* Handlers without a lock.  struct runtime_processor_data has no mutex and no
\* handler takes one, so a handler that has tested temp_layer_layer_active can
\* be overtaken by another context before it acts on what it read.  reset and
\* the position listener are taken in the steps between which that can
\* happen; the other handlers run as one step each.

\* reset up to its test at line 793, which finds the temp layer active
ResetObserve ==
    /\ ~fault
    /\ inflight.reset = "idle"
    /\ calls < MaxCalls
    /\ data.temp_layer_layer_active
    /\ calls' = calls + 1
    /\ data' = reset_to_initial_values(data)
    /\ inflight' = [inflight EXCEPT !.reset = "observed"]
    /\ op' = Op("reset_observe", << >>, 0, << >>, << >>, NoOut)
    /\ UNCHANGED <<cfg, axis_snap_behavior, aml, last_motion, emitted, burst, remainder, keymap_layer_state, settings,
                   now, activated_layer, fault>>

\* line 794: the keymap is asked to deactivate the layer
ResetDeactivate ==
    LET r == zmk_keymap_layer_deactivate(data.temp_layer_layer)
    IN  /\ ~fault
        /\ inflight.reset = "observed"
        /\ keymap_layer_state' = r[2]
        /\ inflight' = [inflight EXCEPT !.reset = "deactivated"]
        /\ op' = Op("reset_deactivate", << >>, 0,
                    << Call("zmk_keymap_layer_deactivate", "",
                            data.temp_layer_layer, r[1]) >>, << >>, NoOut)
        /\ UNCHANGED <<cfg, axis_snap_behavior, aml, last_motion, emitted, burst, data, remainder, settings, now,
                       activated_layer, fault, calls>>

\* lines 795-816: the flag is cleared and reset runs to its end
ResetComplete ==
    LET d1 == schedule_save_processor_settings(
                  reset_invert_and_rotation(
                      [data EXCEPT !.temp_layer_layer_active = FALSE]))
    IN  /\ ~fault
        /\ inflight.reset = "deactivated"
        /\ data' = d1
        /\ burst' = [burst EXCEPT !.writes = @ + 1, !.last = now]
        /\ inflight' = [inflight EXCEPT !.reset = "idle"]
        /\ op' = Op("reset_complete", << >>, 1,
                    << Call("k_work_reschedule", "save_work", SaveDebounce, 1) >>,
                    << raise_state_changed_event(d1) >>, NoOut)
        /\ UNCHANGED <<cfg, axis_snap_behavior, aml, last_motion, emitted, remainder, keymap_layer_state, settings,
                       now, activated_layer, fault, calls>>

\* the position listener up to its decision to deactivate (lines 1040-1165)
PressObserve ==
    \E position \in 0 .. NumPositions :
        /\ ~fault
        /\ inflight.press = -1
        /\ PositionDecision(data, position) = "deactivate"
        /\ inflight' = [inflight EXCEPT !.press = position]
        /\ op' = Op("position_observe", [state |-> TRUE, position |-> position],
                    0, << >>, << >>, NoOut)
        /\ UNCHANGED <<cfg, axis_snap_behavior, aml, last_motion, emitted, burst, data, remainder, keymap_layer_state,
                       settings, now, activated_layer, fault, calls>>

\* lines 1167-1175: the listener cancels the task and deactivates the layer
PressDeactivate ==
    LET r == position_listener_deactivate(data)
    IN  /\ ~fault
        /\ inflight.press # -1
        /\ data' = r[1]
        /\ keymap_layer_state' = r[2]
        /\ inflight' = [inflight EXCEPT !.press = -1]
        /\ op' = Op("position_deactivate",
                    [state |-> TRUE, position |-> inflight.press], 0, r[3],
                    << >>, NoOut)
        /\ UNCHANGED <<cfg, axis_snap_behavior, aml, last_motion, emitted, burst, remainder, settings, now,
                       activated_layer, fault, calls>>

NextRace ==
    \/ HandleEvent
    \/ ActivationWork
    \/ DeactivationWork
    \/ ResetTick
    \/ ResetObserve
    \/ ResetDeactivate
    \/ ResetComplete
    \/ PressObserve
    \/ PressDeactivate

SpecRace == InitSave /\ [][NextRace]_vars

\* the active-layer gate: masks naming layer 2, layers 1 and 2, and a bit
\* beyond the keymap's layers; layer 2 is switched by another behavior
GateMasks == { 4, 6, 32 }

SetGateMask ==
    \E layers \in GateMasks, persistent \in BOOLEAN :
        ConfigCall("set_active_layers",
                   [layers |-> layers, persistent |-> persistent],
                   zmk_input_processor_runtime_set_active_layers(
                       data, layers, persistent))

NextGate ==
    \/ HandleAxisEvent
    \/ SetGateMask
    \/ SetRotation
    \/ KeymapLayerToggle
    \/ ActivationWork
    \/ DeactivationWork
    \/ ResetTick

SpecGate == InitSave /\ [][NextGate]_vars

\* the activation task: motion and key presses, the two tasks, the clock, and
\* store calls that disable the temp layer or point it at layer 2 or at a
\* layer the keymap does not have
NextActivation ==
    \/ HandleEvent
    \/ KeycodeStateChanged
    \/ ActivationWork
    \/ DeactivationWork
    \/ ResetTick
    \/ SetTempLayerEnabled
    \/ SetTempLayerLayer

SpecActivation == InitSave /\ [][NextActivation]_vars

\* the momentary axis-snap key next to store calls that override the scaling
\* and the rotation, temporarily or persistently
NextMomentary ==
    \/ AxisSnapPressed
    \/ AxisSnapReleased
    \/ SetScaling
    \/ SetRotation
    \/ SetAxisSnapThreshold

SpecMomentary == InitSave /\ [][NextMomentary]_vars

\* the auto-mouse-layer processor on layer 1 with a timer of 2 ms, with and
\* without a required idle time after a key press.  Finitely many events
\* arrive within a millisecond, time advances once their handlers have
\* returned, and a thread that has entered a handler goes on.
InitAml ==
    \E idle \in {0, 2} :
        ConstructedWith(Config(<< >>, NoBehavior, NoBehavior),
                        auto_mouse_layer_init(1, idle, 2))

NextAml ==
    \/ MotionSample
    \/ KeyPositionPressed
    \/ KeycodePressed
    \/ LayerStateChanged
    \/ SetKeepActive
    \/ DeactivateWorkRuns
    \/ ReturnsEarly
    \/ \E t \in AmlThreads : AmlLock(t)
    \/ \E t \in AmlThreads : AmlCriticalSection(t)
    \/ \E t \in AmlThreads : AmlUnlock(t)
    \/ AmlTick

SpecAml ==
    /\ InitAml /\ [][NextAml]_vars
    /\ WF_vars(AmlTick)
    /\ WF_vars(DeactivateWorkRuns)
    /\ \A t \in AmlThreads :
          /\ WF_vars(AmlLock(t))
          /\ WF_vars(AmlCriticalSection(t))
          /\ WF_vars(AmlUnlock(t))

\* the layers the channel itself switches: motion, the two tasks, key
\* presses, the clock, and store calls that change the temp-layer id; nothing
\* else touches the keymap's layer state
NextOwnLayer ==
    \/ HandleEvent
    \/ ActivationWork
    \/ DeactivationWork
    \/ ResetTick
    \/ PositionStateChanged
    \/ SetTempLayerLayer

SpecOwnLayer == InitSave /\ [][NextOwnLayer]_vars

\* deactivation rescheduling: a channel whose temp layer is dropped 2 ms after
\* the last motion, fed with samples at recorded times.  The work queue runs
\* its items and the clock advances, hence the fairness conditions.
MaxRescheduleTime == 7

InitReschedule ==
    Constructed([Config(<< >>, NoBehavior, NoBehavior) EXCEPT
                    !.initial_temp_layer_deactivation_delay_ms = 2])

TimedSample ==
    \E e \in MotionEvents :
        /\ now + data.temp_layer_deactivation_delay_ms <= MaxRescheduleTime
        /\ HandleEventStep(e[1], e[2], e[3])
        /\ last_motion' =
               IF /\ EventIsProcessed(data, e[1], e[2])
                  /\ data.temp_layer_layer_active
                  /\ ~data.temp_layer_keep_active
               THEN now ELSE last_motion
        /\ UNCHANGED emitted

RescheduleTick == Elapse(MaxRescheduleTime)

NextReschedule ==
    \/ TimedSample
    \/ ActivationWork
    \/ DeactivationWork
    \/ RescheduleTick

SpecReschedule ==
    /\ InitReschedule /\ [][NextReschedule]_vars
    /\ WF_vars(RescheduleTick)
    /\ WF_vars(ActivationWork)
    /\ WF_vars(DeactivationWork)

----------------------------------------------------------------------------
(* Properties of the configuration store (SpecCfg) *)

ConfigFields == DOMAIN active_config(data)

persistent_config(d) == zmk_input_processor_runtime_get_config(d)

\* the compiled-in defaults of the channel
default_config == active_config(runtime_processor_init(cfg))

\* the fields a setter call targets, with the values it was passed
Written(o) ==
    CASE o.name = "set_scaling" ->
             [scale_multiplier |-> o.args.multiplier,
              scale_divisor |-> o.args.divisor]
      [] o.name = "set_rotation" -> [rotation_degrees |-> o.args.degrees]
      [] o.name = "set_temp_layer" ->
             [temp_layer_enabled |-> o.args.enabled,
              temp_layer_layer |-> o.args.layer,
              temp_layer_activation_delay_ms |-> o.args.activation_delay_ms,
              temp_layer_deactivation_delay_ms |->
                  o.args.deactivation_delay_ms]
      [] o.name = "set_temp_layer_enabled" ->
             [temp_layer_enabled |-> o.args.enabled]
      [] o.name = "set_temp_layer_layer" -> [temp_layer_layer |-> o.args.layer]
      [] o.name = "set_temp_layer_activation_delay" ->
             [temp_layer_activation_delay_ms |-> o.args.activation_delay_ms]
      [] o.name = "set_temp_layer_deactivation_delay" ->
             [temp_layer_deactivation_delay_ms |->
                  o.args.deactivation_delay_ms]
      [] o.name = "set_active_layers" -> [active_layers |-> o.args.layers]
      [] o.name = "set_axis_snap_mode" -> [axis_snap_mode |-> o.args.mode]
      [] o.name = "set_axis_snap_threshold" ->
             [axis_snap_threshold |-> o.args.threshold]
      [] o.name = "set_axis_snap_timeout" ->
             [axis_snap_timeout_ms |-> o.args.timeout_ms]
      [] o.name = "set_axis_snap" ->
             [axis_snap_mode |-> o.args.mode,
              axis_snap_threshold |-> o.args.threshold,
              axis_snap_timeout_ms |-> o.args.timeout_ms]
      [] o.name = "set_x_invert" -> [x_invert |-> o.args.invert]
      [] o.name = "set_y_invert" -> [y_invert |-> o.args.invert]
      [] o.name = "set_xy_to_scroll_enabled" ->
             [xy_to_scroll_enabled |-> o.args.enabled]
      [] o.name = "set_xy_swap_enabled" ->
             [xy_swap_enabled |-> o.args.enabled]

SetterNames ==
    { "set_scaling", "set_rotation", "set_temp_layer",
      "set_temp_layer_enabled", "set_temp_layer_layer",
      "set_temp_layer_activation_delay", "set_temp_layer_deactivation_delay",
      "set_active_layers", "set_axis_snap_mode", "set_axis_snap_threshold",
      "set_axis_snap_timeout", "set_axis_snap", "set_x_invert", "set_y_invert",
      "set_xy_to_scroll_enabled", "set_xy_swap_enabled" }

\* a setter call with arguments in the setter's documented domain: the
\* scaling factors positive, the snap mode one of NONE, X, Y
ValidSetterCall(o) ==
    /\ o.name \in SetterNames
    /\ o.name = "set_scaling" => o.args.multiplier > 0 /\ o.args.divisor > 0
    /\ o.name \in {"set_axis_snap_mode", "set_axis_snap"} =>
           o.args.mode <= ZMK_INPUT_PROCESSOR_AXIS_SNAP_MODE_Y

\* C1: every setter called with persistent = false changes only the active
\* copy of the fields it targets and leaves every persistent field
\* unchanged; called with persistent = true it sets the active and the
\* persistent copy of the targeted fields to the value passed.
C1_SetterWritesValuePassed ==
    [][ ValidSetterCall(op') =>
          LET w == Written(op')
          IN  /\ \A f \in DOMAIN w : active_config(data')[f] = w[f]
              /\ \A f \in ConfigFields \ DOMAIN w :
                     active_config(data')[f] = active_config(data)[f]
              /\ \A f \in ConfigFields \ DOMAIN w :
                     persistent_config(data')[f] = persistent_config(data)[f]
              /\ \A f \in DOMAIN w :
                     persistent_config(data')[f] =
                         IF op'.args.persistent THEN w[f]
                         ELSE persistent_config(data)[f] ]_vars

\* a persistent delay of 65541 ms was passed and 5 ms is what both copies hold
C1_NarrowedDelay ==
    /\ op.name = "set_temp_layer_activation_delay"
    /\ op.args.persistent
    /\ op.args.activation_delay_ms = 65536 + 5
    /\ data.temp_layer_activation_delay_ms = 5
    /\ data.persistent_temp_layer_activation_delay_ms = 5

\* the fields restore_persistent copies back
RestoredFields ==
    { "scale_multiplier", "scale_divisor", "rotation_degrees",
      "axis_snap_mode", "axis_snap_threshold", "axis_snap_timeout_ms",
      "x_invert", "y_invert" }

\* C2: after restore_persistent the active scaling, rotation, axis-snap
\* mode/threshold/timeout and x/y inversion equal their persistent copies
\* and the snap accumulator is 0; the active temp-layer fields, code-mapping
\* flags and active-layers mask and every persistent field are unchanged.
C2_RestorePersistent ==
    [][ op'.name = "restore_persistent" =>
          /\ \A f \in RestoredFields :
                 active_config(data')[f] = persistent_config(data')[f]
          /\ data'.axis_snap_cross_axis_accum = 0
          /\ \A f \in ConfigFields \ RestoredFields :
                 active_config(data')[f] = active_config(data)[f]
          /\ persistent_config(data') = persistent_config(data) ]_vars

\* a restore that overwrote a temporary snap mode and cleared a non-zero
\* accumulator
C2_Witness ==
    /\ op.name = "restore_persistent"
    /\ op.args.accum_before # 0
    /\ op.args.active_before.axis_snap_mode # data.axis_snap_mode
    /\ data.axis_snap_mode = data.persistent_axis_snap_mode

\* C3: after reset every field of the active and of the persistent
\* configuration equals the channel's compiled-in default.
C3_ResetRestoresDefaults ==
    [][ op'.name = "reset" =>
          /\ active_config(data') = default_config
          /\ persistent_config(data') = default_config ]_vars


\* a reset after which a persistent snap mode set earlier is still in force
C3_SnapModeSurvivesReset ==
    /\ op.name = "reset"
    /\ data.axis_snap_mode = ZMK_INPUT_PROCESSOR_AXIS_SNAP_MODE_X
    /\ data.persistent_axis_snap_mode = ZMK_INPUT_PROCESSOR_AXIS_SNAP_MODE_X
    /\ default_config.axis_snap_mode = ZMK_INPUT_PROCESSOR_AXIS_SNAP_MODE_NONE

----------------------------------------------------------------------------
(* Properties of the temp-layer state machine (Spec) *)

Scheduled(o, work) ==
    \E i \in 1 .. Len(o.calls) :
        o.calls[i].fn = "k_work_reschedule" /\ o.calls[i].work = work

DeactivateCalled(o) ==
    \E i \in 1 .. Len(o.calls) : o.calls[i].fn = "zmk_keymap_layer_deactivate"

\* C4: in every reachable state with layer_active true and keep_active
\* false a deactivation task is pending, so that the layer is deactivated
\* once deactivation_delay_ms has passed without further events.
C4_DeactivationPendingWhileActive ==
    (data.temp_layer_layer_active /\ ~data.temp_layer_keep_active)
        => data.temp_layer_deactivation_work # Idle

\* time passes over an active layer that nothing is left to deactivate
C4_ActiveWithNothingPending ==
    /\ op.name = "tick"
    /\ data.temp_layer_layer_active
    /\ ~data.temp_layer_keep_active
    /\ data.temp_layer_activation_work = Idle
    /\ data.temp_layer_deactivation_work = Idle
    /\ activated_layer = data.temp_layer_layer

\* C5: with the temp layer enabled and not active, a processed sample
\* schedules the activation task if and only if its value is non-zero and
\* either no keycode press has been recorded or at least
\* activation_delay_ms have passed since the last one; otherwise the
\* handler schedules nothing, as it does for an event it does not process.
C5_IdleGatedActivation ==
    [][ op'.name = "handle_event" =>
          LET idle == \/ data.last_keypress_timestamp = 0
                      \/ now - data.last_keypress_timestamp
                             >= data.temp_layer_activation_delay_ms
              processed == EventIsProcessed(data, op'.args.type, op'.args.code)
          IN  /\ (processed /\ data.temp_layer_enabled
                     /\ ~data.temp_layer_layer_active) =>
                    IF op'.args.value # 0 /\ idle
                    THEN /\ Scheduled(op', "temp_layer_activation_work")
                         /\ data'.temp_layer_activation_work = Queued
                    ELSE /\ op'.calls = << >>
                         /\ data'.temp_layer_activation_work
                                = data.temp_layer_activation_work
              /\ ~processed => op'.calls = << >> /\ data' = data ]_vars

\* a sample that arrived exactly activation_delay_ms after a recorded
\* keypress and scheduled the activation
C5_ScheduledAfterDelay ==
    /\ op.name = "handle_event"
    /\ Scheduled(op, "temp_layer_activation_work")
    /\ data.last_keypress_timestamp # 0
    /\ now - data.last_keypress_timestamp = data.temp_layer_activation_delay_ms

\* C6: while keep_active is true no step of the program (motion sample,
\* task firing, key press, layer switch, temporary layer-id override) asks
\* the keymap to deactivate a layer or clears layer_active.
C6_KeepActiveBlocksDeactivation ==
    [][ data.temp_layer_keep_active =>
          /\ ~DeactivateCalled(op')
          /\ data.temp_layer_layer_active => data'.temp_layer_layer_active
      ]_vars

\* the deactivation task fired under keep_active and the layer stayed active
C6_TaskFiredUnderKeepActive ==
    /\ op.name = "temp_layer_deactivation_work"
    /\ data.temp_layer_keep_active
    /\ data.temp_layer_layer_active
    /\ data.temp_layer_layer \in keymap_layer_state

\* a call of keep_active(false) made while the temp layer is active
ClearsKeepActive(o, d) ==
    /\ o.name = "temp_layer_keep_active"
    /\ ~o.args.keep_active
    /\ d.temp_layer_layer_active

\* C7 as the specification states it: clearing keep_active while the temp
\* layer is active schedules the deactivation task deactivation_delay_ms
\* ahead.
C7_ClearSchedulesAfterDelay ==
    [][ ClearsKeepActive(op', data) =>
          data'.temp_layer_deactivation_work
              = now + data.temp_layer_deactivation_delay_ms ]_vars

\* C7: clearing keep_active while the temp layer is enabled and active
\* reschedules the deactivation task with no delay (K_NO_WAIT), replacing
\* any pending instance: the task is queued at once.
C7_ClearSchedulesAtOnce ==
    [][ (ClearsKeepActive(op', data) /\ data.temp_layer_enabled) =>
          /\ ~data'.temp_layer_keep_active
          /\ data'.temp_layer_deactivation_work = Queued
          /\ op'.calls = << Call("k_work_reschedule",
                                 "temp_layer_deactivation_work", 0, 1) >>
      ]_vars

\* keep_active has just been cleared on an active layer whose deactivation
\* delay is not zero, and the deactivation task is already queued
C7_QueuedOnClear ==
    /\ ClearsKeepActive(op, data)
    /\ data.temp_layer_deactivation_delay_ms > 0
    /\ data.temp_layer_deactivation_work = Queued
    /\ ~data.temp_layer_keep_active

\* the press of a position, as the listener receives it
Pressed(o) == o.name = "position_state_changed" /\ o.args.state

\* the temp layer's own binding at a position, and whether it is a real one
OwnBinding(d, position) ==
    zmk_keymap_get_layer_binding_at_idx(d.temp_layer_layer, position)

HasOwnBinding(d, position) ==
    /\ OwnBinding(d, position) # NoBinding
    /\ ~binding_is_transparent(OwnBinding(d, position))

\* C8: on a press while the temp layer is active, if the temp layer's own
\* binding at the position is non-transparent, the listener changes nothing:
\* the layer stays active and the pending deactivation task is untouched.
C8_OwnBindingKeepsLayer ==
    [][ ( /\ Pressed(op')
          /\ data.temp_layer_layer_active
          /\ HasOwnBinding(data, op'.args.position) ) =>
          /\ data' = data
          /\ keymap_layer_state' = keymap_layer_state
          /\ op'.calls = << >> ]_vars

\* a press on a position the temp layer binds itself, below which another
\* layer binds a plain key, with the deactivation task still pending
C8_PressOnOwnBinding ==
    /\ Pressed(op)
    /\ data.temp_layer_enabled
    /\ data.temp_layer_layer_active
    /\ ~data.temp_layer_keep_active
    /\ HasOwnBinding(data, op.args.position)
    /\ is_kp(zmk_keymap_get_layer_binding_at_idx(0, op.args.position))
    /\ data.temp_layer_deactivation_work # Idle

\* the bindings of the active layers at a position that are not transparent
OpaqueLayers(position) ==
    { l \in Layers :
        /\ l \in keymap_layer_state
        /\ zmk_keymap_get_layer_binding_at_idx(l, position) # NoBinding
        /\ ~binding_is_transparent(
               zmk_keymap_get_layer_binding_at_idx(l, position)) }

\* the first of them walking from the highest layer down
FirstOpaqueBinding(position) ==
    IF OpaqueLayers(position) = {} THEN NoBinding
    ELSE zmk_keymap_get_layer_binding_at_idx(
             CHOOSE l \in OpaqueLayers(position) :
                 \A m \in OpaqueLayers(position) : m <= l,
             position)

\* the usage a key-press binding sends, page 0 read as the keyboard page
UsageOf(binding) ==
    LET page == ZMK_HID_USAGE_PAGE(binding.param1)
    IN  ZMK_HID_USAGE(IF page = 0 THEN HID_USAGE_KEY ELSE page,
                      ZMK_HID_USAGE_ID(binding.param1))

IsModifierKey(binding) ==
    is_mod(ZMK_HID_USAGE_PAGE(UsageOf(binding)),
           ZMK_HID_USAGE_ID(UsageOf(binding)))

IsListedKey(binding) ==
    \E j \in 1 .. Len(cfg.temp_layer_keep_keycodes) :
        cfg.temp_layer_keep_keycodes[j] = UsageOf(binding)

\* a press that reaches the resolution of the binding: temp layer enabled
\* and active, keep_active false, the temp layer's binding transparent
ReachesResolution(o, d) ==
    /\ Pressed(o)
    /\ d.temp_layer_enabled
    /\ d.temp_layer_layer_active
    /\ ~d.temp_layer_keep_active
    /\ OwnBinding(d, o.args.position) # NoBinding
    /\ binding_is_transparent(OwnBinding(d, o.args.position))

Kept == data' = data /\ keymap_layer_state' = keymap_layer_state
            /\ op'.calls = << >>

Dismissed ==
    /\ ~data'.temp_layer_layer_active
    /\ data'.temp_layer_deactivation_work = Idle
    /\ DeactivateCalled(op')

C10_DismissivePressDeactivates ==
    [][ ( /\ Pressed(op')
          /\ PositionDecision(data, op'.args.position) = "deactivate" ) =>
          /\ data'.temp_layer_deactivation_work = Idle
          /\ DeactivateCalled(op')
          /\ activated_layer \notin keymap_layer_state'
          /\ ~data'.temp_layer_layer_active ]_vars

\* a dismissive press that cancelled the task while the keymap refused the
\* deactivation: the layer stays active with nothing left to deactivate it
C10_DismissedButStillActive ==
    /\ Pressed(op)
    /\ DeactivateCalled(op)
    /\ op.calls[2].ret = -EINVAL
    /\ data.temp_layer_layer_active
    /\ activated_layer \in keymap_layer_state
    /\ data.temp_layer_deactivation_work = Idle


----------------------------------------------------------------------------
(* Rotation pairing *)

\* a handled sample of the rotated channel: the step's event reached rotation
RotatedSample(o, d) ==
    /\ o.name = "handle_event"
    /\ EventIsProcessed(d, o.args.type, o.args.code)
    /\ d.rotation_degrees # 0

SampleIsX(o) == code_idx(o.args.code, cfg.x_codes) >= 0

OppositeBuffered(o, d) == IF SampleIsX(o) THEN d.has_y ELSE d.has_x

\* x' = x cos - y sin, y' = x sin + y cos, in thousandths, of the buffered pair
RotatedValue(o, d) ==
    IF SampleIsX(o)
    THEN CDiv(d.last_x * d.cos_val - d.last_y * d.sin_val, FixedPointScale)
    ELSE CDiv(d.last_x * d.sin_val + d.last_y * d.cos_val, FixedPointScale)

\* C11: with rotation_degrees # 0, a sample whose opposite axis is not
\* buffered emits 0, and a sample that completes a pair emits the rotated
\* value and clears both has_x and has_y, so that the sample after a
\* completed pair is unpaired again.
C11_PairClearsBothFlags ==
    [][ RotatedSample(op', data) =>
          IF OppositeBuffered(op', data)
          THEN /\ op'.out.value = RotatedValue(op', data')
               /\ ~data'.has_x
               /\ ~data'.has_y
          ELSE op'.out.value = 0 ]_vars

\* a sample completed a pair, emitted the rotated value, and its own axis is
\* still buffered for the sample that follows
C11_PairLeavesFlagSet ==
    /\ RotatedSample(op, data)
    /\ op.out.value # 0
    /\ op.out.value = RotatedValue(op, data)
    /\ (data.has_x \/ data.has_y)


----------------------------------------------------------------------------
(* Scaling with carried remainder *)

\* C12: over N consecutive samples of constant value v on one axis, with
\* multiplier > 0 and divisor > 0 and no rotation, snap or inversion, the sum
\* of the emitted values differs from N * v * multiplier / divisor by at
\* most 1 (compared after multiplying through by the divisor).
C12_SumWithinOneOfRatio ==
    emitted.n > 0 =>
        Abs(emitted.sum * data.scale_divisor
            - emitted.n * emitted.v * data.scale_multiplier)
            <= data.scale_divisor

\* the product of the sample and the multiplier does not fit 16 bits and the
\* run of positive samples has a negative sum
C12_ProductOverflows ==
    /\ emitted.n > 0
    /\ emitted.v > 0
    /\ emitted.v * data.scale_multiplier > 32767
    /\ emitted.sum < 0


----------------------------------------------------------------------------
(* Axis snap *)

\* a handled non-zero sample of a channel with axis snap configured
SnapSample(o, d) ==
    /\ o.name = "handle_event"
    /\ EventIsProcessed(d, o.args.type, o.args.code)
    /\ d.axis_snap_mode # ZMK_INPUT_PROCESSOR_AXIS_SNAP_MODE_NONE
    /\ d.rotation_degrees = 0
    /\ o.args.value # 0

IsCrossAxis(o, d) ==
    IF d.axis_snap_mode = ZMK_INPUT_PROCESSOR_AXIS_SNAP_MODE_X
    THEN ~SampleIsX(o) ELSE SampleIsX(o)

\* no decay period has passed since the accumulator was last decayed
NoDecayDue(d) ==
    \/ d.axis_snap_timeout_ms = 0
    \/ d.axis_snap_last_decay_timestamp = 0
    \/ now - d.axis_snap_last_decay_timestamp < DecayPeriodMs

\* C13: with threshold T, a cross-axis sample whose accumulation keeps the
\* magnitude of the accumulator below T is emitted as 0; one whose
\* accumulation brings the magnitude to T or more, and every cross-axis
\* sample while the magnitude is at least T, is emitted unmodified; samples on
\* the locked axis are never altered.
C13_SuppressedBelowThreshold ==
    [][ SnapSample(op', data) /\ NoDecayDue(data) =>
          LET a == data.axis_snap_cross_axis_accum
              v == op'.args.value
              T == data.axis_snap_threshold
          IN  IF ~IsCrossAxis(op', data) THEN op'.out.value = v
              ELSE IF Abs(a) >= T \/ Abs(a + v) >= T THEN op'.out.value = v
              ELSE op'.out.value = 0 ]_vars

\* a cross-axis sample took the accumulator from below the threshold to the
\* least int16_t value and was suppressed
C13_LargestSampleSuppressed ==
    /\ SnapSample(op, data)
    /\ IsCrossAxis(op, data)
    /\ op.out.value = 0
    /\ data.axis_snap_cross_axis_accum = -32768
    /\ data.axis_snap_threshold = 100


\* the accumulator is at or above the threshold and within the cap
Unsnapped(d) ==
    /\ Abs(d.axis_snap_cross_axis_accum) >= d.axis_snap_threshold
    /\ Abs(d.axis_snap_cross_axis_accum) <= 2 * d.axis_snap_threshold

\* the accumulator has not been touched for a whole timeout
TimeoutElapsed(d) ==
    /\ d.axis_snap_timeout_ms >= DecayPeriodMs
    /\ d.axis_snap_last_decay_timestamp > 0
    /\ now - d.axis_snap_last_decay_timestamp >= d.axis_snap_timeout_ms

\* C14: from an unsnapped state (accumulator magnitude between T and 2T),
\* once timeout_ms has passed without a cross-axis sample, the next processed
\* sample finds the accumulator decayed below T: a cross-axis sample of
\* magnitude below T is suppressed, and after a locked-axis sample the
\* accumulator is below T.
C14_SnapReengagesAfterTimeout ==
    [][ SnapSample(op', data) /\ Unsnapped(data) /\ TimeoutElapsed(data) =>
          IF IsCrossAxis(op', data)
          THEN Abs(op'.args.value) < data.axis_snap_threshold
                   => op'.out.value = 0
          ELSE Abs(data'.axis_snap_cross_axis_accum)
                   < data'.axis_snap_threshold ]_vars

\* the accumulator sits at the cap of twice the threshold and a whole timeout
\* has passed since the last cross-axis sample
C14_CappedAndTimedOut ==
    /\ op.name = "advance"
    /\ Abs(data.axis_snap_cross_axis_accum) = 2 * data.axis_snap_threshold
    /\ TimeoutElapsed(data)


\* C15: after the pipeline has processed a cross-axis sample, the magnitude
\* of axis_snap_cross_axis_accum is at most twice the current
\* axis_snap_threshold, for every int16 sample value.
C15_AccumulatorWithinCap ==
    [][ SnapSample(op', data) /\ IsCrossAxis(op', data) =>
          Abs(data'.axis_snap_cross_axis_accum)
              <= 2 * data'.axis_snap_threshold ]_vars

\* a cross-axis sample has been processed and the accumulator holds the least
\* int16_t value, far beyond twice the threshold
C15_AccumulatorBeyondCap ==
    /\ SnapSample(op, data)
    /\ IsCrossAxis(op, data)
    /\ op.args.value = -32768
    /\ data.axis_snap_cross_axis_accum = -32768
    /\ 2 * data.axis_snap_threshold < 32768


----------------------------------------------------------------------------
(* Persistence of the configuration *)

\* the step armed the debounced save task
ArmsSave(o) ==
    \E i \in 1 .. Len(o.calls) :
        /\ o.calls[i].fn = "k_work_reschedule"
        /\ o.calls[i].work = "save_work"
        /\ o.calls[i].n = SaveDebounce

\* a setter call that was not rejected, or a reset
AcceptedStoreCall(o) ==
    \/ o.name \in SetterNames /\ o.ret >= 0
    \/ o.name = "reset"

\* C16: every setter call with persistent = true, and reset, arms the
\* debounced save task and raises exactly one configuration-changed
\* notification, whose snapshot equals the persistent configuration after the
\* call; a setter call with persistent = false arms no save and raises no
\* notification.
C16_PersistentCallSavesAndNotifies ==
    [][ AcceptedStoreCall(op') =>
          IF op'.name = "reset" \/ op'.args.persistent
          THEN /\ ArmsSave(op')
               /\ data'.save_work = now + SaveDebounce
               /\ Len(op'.raised) = 1
               /\ op'.raised[1].name = cfg.name
               /\ op'.raised[1].config = persistent_config(data')
          ELSE /\ ~ArmsSave(op')
               /\ data'.save_work = data.save_work
               /\ Len(op'.raised) = 0 ]_vars

\* a persistent setter call made while a temporary override is in force:
\* the notification is raised and the active configuration differs from the
\* persistent one
C16_NotifiedUnderOverride ==
    /\ op.name \in SetterNames
    /\ op.args.persistent
    /\ Len(op.raised) = 1
    /\ active_config(data) # persistent_config(data)


\* C17: a burst of persistent writes, each within the debounce window of the
\* one before, results in exactly one settings write, performed one debounce
\* window after the last write of the burst, and the record written is the
\* persistent configuration at the time the task fires.
C17_BurstSavedOnce ==
    /\ [][ op'.name = "save_work" =>
             /\ burst.writes > 0
             /\ now = burst.last + SaveDebounce
             /\ settings'.len = SettingsLen
             /\ \A f \in ConfigFields :
                    settings'[f] = persistent_config(data)[f]
             /\ data'.save_work = Idle ]_vars
    /\ [][ burst.writes > 0 /\ burst'.writes > 0 => settings' = settings ]_vars
    /\ (burst.writes > 0) ~> (burst.writes = 0)

\* two persistent writes, the second at time 2 and within the window of the
\* first, have just been saved by one settings write at time 2 + debounce
C17_TwoWritesOneSave ==
    /\ op.name = "save_work"
    /\ now = 2 + SaveDebounce
    /\ settings.len = SettingsLen
    /\ settings.scale_multiplier = 2
    /\ settings.x_invert


\* a load of a record of the right size, read without error, under the
\* channel's own name
WellFormedLoad(o) ==
    /\ o.name = "settings_load"
    /\ o.args.name = cfg.name
    /\ o.args.len = SettingsLen
    /\ o.args.read_ok

\* C18: the record the save task wrote from persistent configuration c, when
\* handed to the load callback of the same channel, yields a persistent
\* configuration equal to c in every field, and the active configuration is
\* set equal to it as well.
C18_SaveLoadRoundTrip ==
    [][ WellFormedLoad(op') =>
          /\ op'.ret = 0
          /\ persistent_config(data') = burst.saved
          /\ active_config(data') = burst.saved ]_vars

\* a load after a restart brought back a saved configuration that differs
\* from the compiled-in defaults the channel had restarted with
C18_LoadedAfterRestart ==
    /\ WellFormedLoad(op)
    /\ op.ret = 0
    /\ op.args.before = default_config
    /\ persistent_config(data) # default_config
    /\ persistent_config(data) = burst.saved

\* C19: loading a record whose length differs from the fixed record size, or
\* whose read fails, or whose key names no registered channel, returns an
\* error and leaves every active and persistent field unchanged.
C19_MalformedLoadRejected ==
    [][ op'.name = "settings_load" /\ ~WellFormedLoad(op') =>
          /\ op'.ret < 0
          /\ persistent_config(data') = persistent_config(data)
          /\ active_config(data') = active_config(data)
          /\ data' = data ]_vars

\* a record of the wrong length was refused while the stored record differs
\* from the configuration the channel holds
C19_WrongLengthRefused ==
    /\ op.name = "settings_load"
    /\ op.args.name = cfg.name
    /\ op.args.len # SettingsLen
    /\ op.args.read_ok
    /\ op.ret = -EINVAL
    /\ burst.saved # persistent_config(data)


\* a call of set_axis_snap_mode or set_axis_snap with a mode above Y
BadSnapModeCall(o) ==
    /\ o.name \in {"set_axis_snap_mode", "set_axis_snap"}
    /\ o.args.mode > ZMK_INPUT_PROCESSOR_AXIS_SNAP_MODE_Y

\* the snap fields of the runtime data: active and persistent mode, threshold
\* and timeout, and the cross-axis accumulator
SnapFields(d) ==
    <<d.axis_snap_mode, d.axis_snap_threshold, d.axis_snap_timeout_ms,
      d.persistent_axis_snap_mode, d.persistent_axis_snap_threshold,
      d.persistent_axis_snap_timeout_ms, d.axis_snap_cross_axis_accum>>

\* C20: set_axis_snap_mode and set_axis_snap called with a mode outside
\* {NONE, X, Y} return an error and change nothing: active and persistent
\* snap mode, threshold and timeout and the snap accumulator are unchanged,
\* no save is scheduled and no notification is raised.
C20_BadSnapModeChangesNothing ==
    [][ BadSnapModeCall(op') =>
          /\ op'.ret = -EINVAL
          /\ SnapFields(data') = SnapFields(data)
          /\ data' = data
          /\ settings' = settings
          /\ op'.calls = << >>
          /\ op'.raised = << >> ]_vars

\* a persistent call with mode 3 was refused while snapping was on and the
\* accumulator held cross-axis movement
C20_RefusedWithAccumulator ==
    /\ BadSnapModeCall(op)
    /\ op.args.persistent
    /\ op.ret = -EINVAL
    /\ data.axis_snap_mode # ZMK_INPUT_PROCESSOR_AXIS_SNAP_MODE_NONE
    /\ data.axis_snap_cross_axis_accum # 0
    /\ data.save_work = Idle


\* a call of set_scaling with a zero multiplier or a zero divisor
ZeroScalingCall(o) ==
    /\ o.name = "set_scaling"
    /\ (o.args.multiplier = 0 \/ o.args.divisor = 0)

\* the active and persistent scaling ratio of the runtime data
ScalingFields(d) ==
    <<d.scale_multiplier, d.scale_divisor,
      d.persistent_scale_multiplier, d.persistent_scale_divisor>>

\* C21: set_scaling called with multiplier = 0 or divisor = 0 is rejected
\* with an error and causes no state change: neither the active nor the
\* persistent multiplier or divisor changes, no save is scheduled and no
\* notification is raised.
C21_ZeroScalingRejected ==
    [][ ZeroScalingCall(op') =>
          /\ op'.ret < 0
          /\ ScalingFields(data') = ScalingFields(data)
          /\ data'.save_work = data.save_work
          /\ ~ArmsSave(op')
          /\ op'.raised = << >> ]_vars

\* a persistent set_scaling(0, 3) was accepted: it returned no error, stored
\* the divisor in both copies, armed the save and raised the notification
C21_ZeroMultiplierAccepted ==
    /\ op.name = "set_scaling"
    /\ op.args.multiplier = 0
    /\ op.args.divisor = 3
    /\ op.args.persistent
    /\ op.ret >= 0
    /\ data.scale_divisor = 3
    /\ data.persistent_scale_divisor = 3
    /\ data.persistent_scale_divisor # cfg.initial_scale_divisor
    /\ ArmsSave(op)
    /\ Len(op.raised) = 1


\* what reset is compared on: the active and the persistent configuration and
\* the temp-layer activity flag
ResetOutcome(d) ==
    <<active_config(d), persistent_config(d), d.temp_layer_layer_active>>

\* C22: from any reachable state, performing reset twice in a row leaves the
\* channel with the same active configuration, persistent configuration and
\* temp-layer activity flag as performing reset once.
C22_ResetIdempotent ==
    /\ [] LET once == zmk_input_processor_runtime_reset(data)[1]
              twice == zmk_input_processor_runtime_reset(once)[1]
          IN  ResetOutcome(twice) = ResetOutcome(once)
    /\ [][ op.name = "reset" /\ op'.name = "reset" =>
             ResetOutcome(data') = ResetOutcome(data) ]_vars

\* a reset, the second persistent call of its burst, that found the temp
\* layer active, deactivated it and left the compiled-in configuration
C22_ResetOfChangedChannel ==
    /\ op.name = "reset"
    /\ Len(op.calls) = 2
    /\ op.calls[1].fn = "zmk_keymap_layer_deactivate"
    /\ burst.writes = 2
    /\ ~data.temp_layer_layer_active
    /\ active_config(data) = default_config


\* a step of one of the two temp-layer tasks
TempLayerTaskStep(o) ==
    o.name \in {"temp_layer_activation_work", "temp_layer_deactivation_work"}

\* C23: if the temp layer is active when reset is called, then after reset
\* the keymap layer this channel had activated is deactivated and layer_active
\* is false, also when the temp-layer id had been changed before the layer
\* was activated; and no activation or deactivation task left pending from
\* before the reset changes the layer state afterwards.
C23_ResetDeactivatesTempLayer ==
    [][ /\ op'.name = "reset" /\ data.temp_layer_layer_active =>
            /\ activated_layer \notin keymap_layer_state'
            /\ ~data'.temp_layer_layer_active
        /\ op.name = "reset" /\ TempLayerTaskStep(op') =>
            /\ keymap_layer_state' = keymap_layer_state
            /\ data'.temp_layer_layer_active = data.temp_layer_layer_active
      ]_vars

\* reset returned with layer_active false while layer 2, which the channel
\* had activated under a changed temp-layer id, is still active in the keymap
C23_ActivatedLayerSurvivesReset ==
    /\ op.name = "reset"
    /\ ~data.temp_layer_layer_active
    /\ activated_layer = 2
    /\ activated_layer # cfg.initial_temp_layer_layer
    /\ activated_layer \in keymap_layer_state
    /\ op.calls[1].fn = "zmk_keymap_layer_deactivate"
    /\ op.calls[1].n = cfg.initial_temp_layer_layer


\* a non-zero sample of the channel's type and axis, with no recent key press
QualifyingSample(o, d) ==
    /\ o.name = "handle_event"
    /\ EventIsProcessed(d, o.args.type, o.args.code)
    /\ o.args.value # 0
    /\ d.temp_layer_enabled
    /\ \/ d.last_keypress_timestamp = 0
       \/ now - d.last_keypress_timestamp >= d.temp_layer_activation_delay_ms

\* C24: when the keymap layer designated as the temp layer is deactivated by
\* other means while layer_active is true, the runtime state is reconciled to
\* Inactive: once the layer-state change has been handled layer_active is
\* false (layer_active implies the keymap layer is active), and a later
\* qualifying motion sample can activate the layer again.
C24_ExternalDeactivationReconciled ==
    /\ [](data.temp_layer_layer_active =>
              data.temp_layer_layer \in keymap_layer_state)
    /\ [][ op'.name = "keymap_layer_deactivate" =>
              ~data'.temp_layer_layer_active ]_vars
    /\ [][ op.name = "keymap_layer_deactivate" /\ QualifyingSample(op', data) =>
              Scheduled(op', "temp_layer_activation_work") ]_vars

\* after the layer was switched off by other means a qualifying sample found
\* layer_active still true and did not schedule the activation
C24_StaleActiveBlocksActivation ==
    /\ QualifyingSample(op, data)
    /\ data.temp_layer_layer_active
    /\ data.temp_layer_layer \notin keymap_layer_state
    /\ ~Scheduled(op, "temp_layer_activation_work")
    /\ data.temp_layer_activation_work = Idle


\* the steps that continue a handler which has read temp_layer_layer_active
ContinuesInflight(o) ==
    /\ inflight.reset = "observed" => o.name = "reset_deactivate"
    /\ inflight.reset = "deactivated" => o.name = "reset_complete"
    /\ inflight.press # -1 => o.name = "position_deactivate"

\* the keymap was asked to deactivate a layer that was not active
DeactivatesInactiveLayer(o) ==
    \E i \in 1 .. Len(o.calls) :
        /\ o.calls[i].fn = "zmk_keymap_layer_deactivate"
        /\ o.calls[i].n \notin keymap_layer_state

\* C25: every read-modify-write of the channel's state by the pipeline, a
\* store call, a key-event listener or a firing task is performed under the
\* channel's lock, so no two of them interleave; in particular a deactivation
\* task firing concurrently with a dismissive key press, or an activation
\* task firing concurrently with reset, cannot both act on one observation of
\* layer_active: the layer is not deactivated twice and is not left active
\* with layer_active false.
C25_HandlersExcludeEachOther ==
    /\ [][ ContinuesInflight(op') ]_vars
    /\ [][ ~DeactivatesInactiveLayer(op') ]_vars
    /\ [](inflight = NoInflight /\ data.temp_layer_layer \in keymap_layer_state
              => data.temp_layer_layer_active)

\* reset has returned and no handler is under way: the temp layer is active
\* in the keymap, activated by a task that ran inside reset, and
\* layer_active has been cleared by reset
C25_ActiveLayerFlagCleared ==
    /\ op.name = "reset_complete"
    /\ inflight = NoInflight
    /\ data.temp_layer_layer \in keymap_layer_state
    /\ activated_layer = data.temp_layer_layer
    /\ ~data.temp_layer_layer_active


RECURSIVE Pow2(_)
Pow2(n) == IF n = 0 THEN 1 ELSE 2 * Pow2(n - 1)

\* some active keymap layer has its bit set in the mask
MaskMeetsActiveLayer(mask) ==
    \E l \in keymap_layer_state : (mask \div Pow2(l)) % 2 = 1

\* a sample of the channel's event type on one of its axis codes
AxisSample(o) ==
    /\ o.name = "handle_event"
    /\ o.args.type = cfg.type
    /\ o.args.code \in {INPUT_REL_X, INPUT_REL_Y}

\* C26: when active_layers is 0 the sample is always processed; when it is
\* non-zero and no layer whose bit is set in the mask is active, the handler
\* leaves the sample's code and value unchanged and changes no channel state
\* (no timestamp update, no activation or deactivation scheduling, no change
\* to the rotation pairing buffer, snap accumulator or scale remainder).
C26_ActiveLayerGate ==
    [][ AxisSample(op') =>
          /\ (data.active_layers = 0 /\ data.temp_layer_enabled
                  /\ op'.args.value # 0) =>
                 data'.last_input_timestamp = now
          /\ (data.active_layers # 0
                  /\ ~MaskMeetsActiveLayer(data.active_layers)) =>
                 /\ op'.out = [code |-> op'.args.code, value |-> op'.args.value]
                 /\ op'.calls = << >>
                 /\ data' = data
                 /\ remainder' = remainder ]_vars

\* a sample passed through untouched while the mask named layer 2 only and
\* layer 2 was off: a quarter-turn rotation was configured, which would have
\* buffered the sample and emitted 0, and the input timestamp is an older one
C26_GatedSampleUntouched ==
    /\ AxisSample(op)
    /\ op.args.value # 0
    /\ data.active_layers = 4
    /\ 2 \notin keymap_layer_state
    /\ data.rotation_degrees = 90
    /\ op.out = [code |-> op.args.code, value |-> op.args.value]
    /\ ~data.has_x /\ ~data.has_y
    /\ data.last_input_timestamp # now


\* the notification names the channel and carries the index under which
\* find_by_id returns it
AttributesChannel(ev) ==
    /\ ev.name = cfg.name
    /\ ev.id = zmk_input_processor_runtime_get_id(cfg.name)
    /\ zmk_input_processor_runtime_find_by_id(ev.id) = cfg.name

\* C27: every configuration-changed notification raised for a channel, by a
\* persistent setter, by reset or by the list operation, carries that
\* channel's name and its registry id, the index for which find_by_id
\* returns the channel.
C27_NotificationAttributesChannel ==
    [][ \A i \in 1 .. Len(op'.raised) : AttributesChannel(op'.raised[i]) ]_vars

\* a persistent setter of the second registered channel raised a notification
\* with id 0, the index of the first
C27_SetterNotifiesUnderIdZero ==
    /\ op.name \in SetterNames
    /\ op.args.persistent
    /\ Len(op.raised) = 1
    /\ op.raised[1].name = cfg.name
    /\ op.raised[1].id = 0
    /\ zmk_input_processor_runtime_get_id(cfg.name) = 1
    /\ zmk_input_processor_runtime_find_by_id(op.raised[1].id) # cfg.name


\* the runtime data once the activation work has been taken off the queue
ActivationTaken(d) == [d EXCEPT !.temp_layer_activation_work = Idle]

\* C28: when the activation task fires: if the temp layer is disabled or
\* already active nothing happens; otherwise the keymap is asked to activate
\* temp_layer_layer and layer_active becomes true only if it reports success;
\* on failure no channel state changes, and activation is attempted again only
\* when a later qualifying motion sample reschedules the task.
C28_ActivationTask ==
    /\ [][ op'.name = "temp_layer_activation_work" =>
             IF ~data.temp_layer_enabled \/ data.temp_layer_layer_active
             THEN /\ op'.calls = << >>
                  /\ data' = ActivationTaken(data)
                  /\ keymap_layer_state' = keymap_layer_state
             ELSE /\ Len(op'.calls) = 1
                  /\ op'.calls[1].fn = "zmk_keymap_layer_activate"
                  /\ op'.calls[1].n = data.temp_layer_layer
                  /\ IF op'.calls[1].ret = 0
                     THEN /\ data' = [ActivationTaken(data) EXCEPT
                                         !.temp_layer_layer_active = TRUE]
                          /\ data.temp_layer_layer \in keymap_layer_state'
                     ELSE /\ data' = ActivationTaken(data)
                          /\ keymap_layer_state' = keymap_layer_state ]_vars
    /\ [][ (data.temp_layer_activation_work = Idle
               /\ data'.temp_layer_activation_work # Idle) =>
             /\ QualifyingSample(op', data)
             /\ ~data.temp_layer_layer_active ]_vars

\* the activation task fired for layer 3, which the keymap does not have: the
\* keymap refused, layer_active stayed false and the task is not pending
C28_ActivationRefused ==
    /\ op.name = "temp_layer_activation_work"
    /\ Len(op.calls) = 1
    /\ op.calls[1].n = ZMK_KEYMAP_LAYERS_LEN
    /\ op.calls[1].ret = -EINVAL
    /\ ~data.temp_layer_layer_active
    /\ data.temp_layer_activation_work = Idle
    /\ keymap_layer_state = {0}


\* the sample reaches the decay step-size computation of line 384 with
\* timeout_ms / 50 equal to zero
DecayDividesByZero(o, d) ==
    /\ o.name = "handle_event"
    /\ EventIsProcessed(d, o.args.type, o.args.code)
    /\ d.axis_snap_mode # ZMK_INPUT_PROCESSOR_AXIS_SNAP_MODE_NONE
    /\ o.args.value # 0
    /\ d.axis_snap_timeout_ms > 0
    /\ d.axis_snap_last_decay_timestamp > 0
    /\ (now - d.axis_snap_last_decay_timestamp) \div DecayPeriodMs > 0
    /\ d.axis_snap_timeout_ms \div DecayPeriodMs = 0

\* C29: for every configuration the setters accept (any uint16 axis-snap
\* threshold and timeout_ms including 1..49, any multiplier/divisor, any
\* rotation), processing a sample completes and yields 0 or a transformed
\* value: no pipeline step reaches an undefined operation, in particular
\* threshold / (timeout_ms / 50) never divides by zero.
C29_PipelineNeverUndefined ==
    /\ [](~fault)
    /\ [][ ~DecayDividesByZero(op', data) ]_vars

\* with a timeout of 20 ms set through the store, a sample arriving a decay
\* period after cross-axis movement divided by zero and the CPU trapped
C29_DecayTrapped ==
    /\ fault
    /\ op.name = "handle_event"
    /\ data.axis_snap_timeout_ms = 20
    /\ data.axis_snap_timeout_ms \div DecayPeriodMs = 0
    /\ data.axis_snap_mode # ZMK_INPUT_PROCESSOR_AXIS_SNAP_MODE_NONE


\* the sample's value after rotation: the value itself on an unrotated
\* channel, the rotated pair or 0 on a rotated one
ValueAfterRotation(o, d, dd) ==
    IF d.rotation_degrees = 0 THEN o.args.value
    ELSE IF OppositeBuffered(o, d) THEN RotatedValue(o, dd)
    ELSE 0

\* the inversion flag of the axis the sample is emitted on
ResultingAxisInverted(o, d) ==
    IF o.out.code = INPUT_REL_X THEN d.x_invert ELSE d.y_invert

\* C30: axis inversion negates a sample's (possibly rotated) value if and
\* only if the inversion flag of the sample's resulting axis, the axis it is
\* emitted on after code mapping, is set; with SwapXY enabled, x_invert true
\* and y_invert false, a sample arriving with the X code is not negated and a
\* sample arriving with the Y code is negated.
C30_InvertFollowsResultingAxis ==
    [][ (op'.name = "handle_event"
            /\ EventIsProcessed(data, op'.args.type, op'.args.code)) =>
          LET v == ValueAfterRotation(op', data, data')
          IN  op'.out.value =
                  IF ResultingAxisInverted(op', data) THEN -v ELSE v ]_vars

\* with SwapXY on, x_invert set and y_invert clear, the sample X=5 left the
\* handler with the Y code and the value -5
C30_SwappedSampleNegated ==
    /\ op.name = "handle_event"
    /\ data.rotation_degrees = 0
    /\ data.xy_swap_enabled /\ ~data.xy_to_scroll_enabled
    /\ data.x_invert /\ ~data.y_invert
    /\ op.args.code = INPUT_REL_X
    /\ op.args.value = 5
    /\ op.out = [code |-> INPUT_REL_Y, value |-> -5]


----------------------------------------------------------------------------
(* The pipeline as a whole *)

\* inversion, snap and scaling, in this order, of the value v that left the
\* rotation of the step's sample
Downstream(o, d, rem, v) ==
    LET is_x == SampleIsX(o)
        s == [d |-> d, value |-> v, code |-> o.args.code, rem |-> rem,
              calls |-> << >>, divzero |-> FALSE]
    IN  ScalingStage(SnapStage(InversionStage(s, is_x), is_x), is_x).value

\* the component of (-y, x) on the sample's axis, y and x being the values
\* of the pair the sample completes
QuarterTurn(o, d) ==
    IF SampleIsX(o) THEN -d.last_y ELSE d.last_x

\* C31: with rotation 0 the rotation stage is the identity on every sample,
\* no pairing needed (scale 1/2 turns X=10 into X=5); with rotation 90
\* (cos 0, sin 1000) the first sample of a pair emits 0 and the second the
\* component of (-y, x) on its axis, which then goes through inversion, snap
\* and scaling in that order.
C31_RotationThenInvertSnapScale ==
    [][ (op'.name = "handle_event"
            /\ EventIsProcessed(data, op'.args.type, op'.args.code)) =>
          /\ data.rotation_degrees = 0 =>
                op'.out.value =
                    Downstream(op', data, remainder, op'.args.value)
          /\ (data.rotation_degrees = 90 /\ ~OppositeBuffered(op', data)) =>
                op'.out.value = 0
          /\ (data.rotation_degrees = 90 /\ OppositeBuffered(op', data)) =>
                op'.out.value =
                    Downstream(op', data, remainder,
                               QuarterTurn(op', data')) ]_vars

\* on the quarter-turn channel scaled by 1/2 with Y inverted, Y=-3 completed
\* the pair begun by X=10 and left the handler as -5
C31_PairedSampleScaled ==
    /\ op.name = "handle_event"
    /\ data.rotation_degrees = 90
    /\ data.cos_val = 0 /\ data.sin_val = 1000
    /\ data.scale_multiplier = 1 /\ data.scale_divisor = 2
    /\ data.y_invert
    /\ op.args.code = INPUT_REL_Y /\ op.args.value = -3
    /\ data.last_x = 10 /\ ~data.has_x
    /\ op.out.value = -5


----------------------------------------------------------------------------
(* The momentary axis-snap key *)

SnapConfigFields ==
    {"axis_snap_mode", "axis_snap_threshold", "axis_snap_timeout_ms"}

\* the active configuration outside the axis-snap fields is what it was at
\* the press: no other call changed it while the key was held
OnlySnapChangedSincePress(d) ==
    \A f \in ConfigFields \ SnapConfigFields :
        active_config(d)[f] = axis_snap_behavior.before[f]

\* C32: a press applies the binding's snap mode and threshold as a temporary
\* override (persistent configuration unchanged, nothing saved); the matching
\* release reverts the active configuration to exactly what it was before
\* the press, whatever other temporary overrides were in force; a release
\* with no preceding successful press changes nothing.
C32_ReleaseRevertsToBeforePress ==
    [][ /\ (op'.name = "binding_pressed" /\ op'.ret >= 0) =>
             /\ data'.axis_snap_mode = op'.args.param1
             /\ data'.axis_snap_threshold = op'.args.param2
             /\ persistent_config(data') = persistent_config(data)
             /\ data'.save_work = data.save_work
             /\ op'.calls = << >>
        /\ (op'.name = "binding_released" /\ axis_snap_behavior.is_active
               /\ OnlySnapChangedSincePress(data)) =>
             active_config(data') = axis_snap_behavior.before
        /\ (op'.name = "binding_released" /\ ~axis_snap_behavior.is_active) =>
             data' = data ]_vars

\* the key was pressed while the scaling was temporarily 2/3 and has been
\* released: the scaling is back at the persistent 1/1
C32_ReleaseDroppedScalingOverride ==
    /\ op.name = "binding_released"
    /\ op.ret = 1
    /\ axis_snap_behavior.before.scale_multiplier = 2
    /\ axis_snap_behavior.before.scale_divisor = 3
    /\ data.persistent_scale_multiplier = 1
    /\ data.scale_multiplier = 1
    /\ data.scale_divisor = 1


----------------------------------------------------------------------------
(* Deactivation rescheduling *)

\* the calls of a step that reschedule the deactivation task
DeactivationReschedules(o) ==
    { i \in 1 .. Len(o.calls) :
          /\ o.calls[i].fn = "k_work_reschedule"
          /\ o.calls[i].work = "temp_layer_deactivation_work" }

\* a sample has just been processed on the active, not held layer
MotionOnActiveLayer ==
    /\ op.name = "handle_event"
    /\ last_motion = now
    /\ data.temp_layer_layer_active

----------------------------------------------------------------------------
(* Decay of the cross-axis accumulator *)

Min(a, b) == IF a < b THEN a ELSE b

\* the accumulator a moved toward zero by min(|a|, step x periods)
DecayedTowardZero(d) ==
    LET a == d.axis_snap_cross_axis_accum
        periods == (now - d.axis_snap_last_decay_timestamp) \div DecayPeriodMs
        q == d.axis_snap_threshold
                 \div (d.axis_snap_timeout_ms \div DecayPeriodMs)
        step == IF q < 1 THEN 1 ELSE q
    IN  IF a > 0 THEN a - Min(a, step * periods)
        ELSE a + Min(-a, step * periods)

\* C34: for every time elapsed since last_decay_timestamp, idle periods of
\* many minutes included, the decay step moves the accumulator toward zero
\* by min(|accum|, step x periods); it never increases the accumulator's
\* magnitude and never changes its sign.  (Observed on samples of the locked
\* axis, where the decay is all that touches the accumulator.)
C34_DecayTowardZero ==
    [][ (SnapSample(op', data) /\ ~IsCrossAxis(op', data)
            /\ data.axis_snap_timeout_ms >= DecayPeriodMs) =>
          LET a == data.axis_snap_cross_axis_accum
              b == data'.axis_snap_cross_axis_accum
          IN  /\ b = IF NoDecayDue(data) THEN a ELSE DecayedTowardZero(data)
              /\ Abs(b) <= Abs(a)
              /\ a * b >= 0 ]_vars

\* 65.5 seconds after the accumulator stood at 60, a sample on the locked
\* axis has decayed it to 96
C34_DecayRaisedAccumulator ==
    /\ op.name = "handle_event"
    /\ op.args.code = INPUT_REL_X
    /\ data.axis_snap_mode = ZMK_INPUT_PROCESSOR_AXIS_SNAP_MODE_X
    /\ now > 1310 * DecayPeriodMs
    /\ data.axis_snap_last_decay_timestamp = now
    /\ data.axis_snap_cross_axis_accum = 96


----------------------------------------------------------------------------
(* The layer the channel activated *)

\* C35: the keymap layer a channel deactivates is the one it activated: in
\* every reachable state, also after the temp-layer id was changed while the
\* temp layer was active, layer_active false implies that no keymap layer
\* activated by this channel is still active on its behalf.
C35_InactiveMeansLayerReleased ==
    (~data.temp_layer_layer_active /\ activated_layer # -1)
        => activated_layer \notin keymap_layer_state

\* the deactivation task ran after the temp-layer id had been changed from 1
\* to 2: layer_active is clear and layer 1 is still active in the keymap
C35_TaskReleasedAnotherLayer ==
    /\ op.name = "temp_layer_deactivation_work"
    /\ DeactivateCalled(op)
    /\ ~data.temp_layer_layer_active
    /\ data.temp_layer_layer = 2
    /\ activated_layer = 1
    /\ keymap_layer_state = {0, 1}


----------------------------------------------------------------------------
(* The cached rotation values *)

\* C36: in every reachable state, after init and after any sequence of
\* set_rotation (temporary or persistent), reset, restore_persistent and
\* settings load, cos_val and sin_val are the values derived from the active
\* rotation_degrees; active rotation_degrees = 0 implies cos_val = 1000 and
\* sin_val = 0.
C36_RotationCacheConsistent ==
    /\ <<data.cos_val, data.sin_val>> = RotationValues(data.rotation_degrees)
    /\ data.rotation_degrees = 0 => (data.cos_val = 1000 /\ data.sin_val = 0)

\* a stored rotation of 90 degrees has been loaded over a channel reset to 0
C36_LoadedRotationCached ==
    /\ op.name = "settings_load"
    /\ op.ret = 0
    /\ op.args.before.rotation_degrees = 0
    /\ data.rotation_degrees = 90
    /\ data.cos_val = 0
    /\ data.sin_val = 1000


----------------------------------------------------------------------------
(* Narrowing of the rotated value *)

\* C37: for every pair of buffered int16 values (x, y) and every cached
\* (cos_val, sin_val) with cos^2 + sin^2 <= 1000^2, the value emitted by the
\* rotation stage equals (x*cos_val - y*sin_val)/1000 for X and
\* (x*sin_val + y*cos_val)/1000 for Y with truncating division: the
\* narrowing of the 32-bit result to int16 never wraps.
C37_RotatedValueNeverWraps ==
    [][ (RotatedSample(op', data) /\ OppositeBuffered(op', data)
            /\ data.cos_val * data.cos_val + data.sin_val * data.sin_val
                   <= FixedPointScale * FixedPointScale) =>
          op'.out.value = RotatedValue(op', data') ]_vars

\* at 45 degrees the pair (32767, -32768) was completed by its X sample:
\* (32767*707 + 32768*707)/1000 = 46333 left the handler as -19203
C37_RotatedValueWrapped ==
    /\ RotatedSample(op, data)
    /\ data.cos_val = 707 /\ data.sin_val = 707
    /\ op.args.code = INPUT_REL_X
    /\ data.last_x = 32767 /\ data.last_y = -32768
    /\ RotatedValue(op, data) = 46333
    /\ op.out.value = -19203

----------------------------------------------------------------------------
(* The auto-mouse-layer processor *)

AmlTimerPending == aml.deactivate_work # Idle

\* C38: with time_to_max_ms above zero, whenever the auto-mouse-layer
\* processor is active and keep_active is false and no handler is under
\* way, its deactivation timer is pending; and an active processor that is
\* not kept active is eventually deactivated or kept active.
C38_ActiveLayerHasTimer ==
    /\ [](aml.time_to_max_ms > 0 /\ aml.is_active /\ ~aml.keep_active
            /\ AmlAtRest
          => AmlTimerPending)
    /\ (aml.is_active /\ ~aml.keep_active)
          ~> (~aml.is_active \/ aml.keep_active)

\* the timer of an active processor expired and its callback switched the
\* layer off
C38_TimerDeactivatedLayer ==
    /\ op.name = "layer_deactivate_work_cb"
    /\ DeactivateCalled(op)
    /\ ~aml.is_active
    /\ aml.layer \notin keymap_layer_state

\* C39: while keep_active is true the processor never deactivates its
\* layer: no step taken with keep_active set, whether the work callback or
\* a key-position press, calls zmk_keymap_layer_deactivate.
C39_KeepActiveBlocksDeactivation ==
    [][aml.keep_active /\ aml.is_active /\ ~aml'.is_active
       => ~DeactivateCalled(op')]_vars

\* a key press on a transparent position switched the layer off although
\* keep_active was set
C39_KeyPressDeactivatedKeptLayer ==
    /\ op.name = "handle_position_state_changed"
    /\ DeactivateCalled(op)
    /\ aml.keep_active
    /\ ~aml.is_active
    /\ aml.layer \notin keymap_layer_state

InCriticalSection(t) == aml.pc[t].at \in {"locked", "unlock"}

LayerCalls(o) ==
    { i \in 1 .. Len(o.calls) :
        o.calls[i].fn \in {"zmk_keymap_layer_activate",
                           "zmk_keymap_layer_deactivate"} }

\* C40: the handlers of the auto-mouse-layer processor change is_active,
\* keep_active and last_keycode_timestamp only in a critical section under
\* data->lock; a thread holds the lock exactly while it is in its critical
\* section, so no two critical sections overlap and the lock is released on
\* every path; every thread that enters a handler leaves it; and a critical
\* section makes at most one layer call, an activation exactly when
\* is_active goes from false to true and a deactivation exactly when it
\* goes from true to false with the layer switched by the processor.
C40_HandlersMutuallyExclusive ==
    /\ [](\A t, u \in AmlThreads :
            InCriticalSection(t) /\ InCriticalSection(u) => t = u)
    /\ [](\A t \in AmlThreads :
            InCriticalSection(t) <=> aml.lock.count = 1 /\ aml.lock.owner = t)
    /\ [](aml.lock.count \in {0, 1})
    /\ [][ \/ aml'.is_active # aml.is_active
           \/ aml'.keep_active # aml.keep_active
           \/ aml'.last_keycode_timestamp # aml.last_keycode_timestamp
           \/ LayerCalls(op') # {} /\ op' # op
           => \E t \in AmlThreads :
                /\ aml.pc[t].at = "locked" /\ aml.lock.owner = t
                /\ aml'.pc[t].at = "unlock" /\ aml'.lock.owner = t
                /\ Cardinality(LayerCalls(op')) <= 1
                /\ \A i \in LayerCalls(op') :
                     /\ aml'.is_active # aml.is_active
                     /\ aml'.is_active
                          <=> op'.calls[i].fn = "zmk_keymap_layer_activate" ]_vars
    /\ \A t \in AmlThreads : (aml.pc[t].at # "idle") ~> (aml.pc[t].at = "idle")

\* the work callback waits for the mutex while the motion handler, which
\* has just activated the layer and restarted the timer, still holds it
C40_CallbackWaitedForMotionHandler ==
    /\ aml.pc["workq"].at = "lock"
    /\ aml.pc["input"].at = "unlock"
    /\ aml.lock = [owner |-> "input", count |-> 1]
    /\ op.name = "auto_mouse_layer_handle_event"
    /\ Cardinality(LayerCalls(op)) = 1
    /\ aml.is_active

====
